---------------------------- MODULE Spec2Model ----------------------------
(***************************************************************************)
(* Session lifecycle of the learning-progress tracker: the durable table   *)
(* time_tracking_sessions, the in-memory activeSessionsCache of            *)
(* TimeTrackerService, the asynchronous start / stop / cancel / status     *)
(* operations, boot-time recovery, and the error taxonomy that turns a     *)
(* rejection into an API error code.                                       *)
(*                                                                         *)
(* Every sqlite statement is one atomic step, taken together with its      *)
(* completion callback: the statement touches only the table, the callback *)
(* only the cache and its own request, so a callback commutes with every   *)
(* other statement and running it at once loses no interleaving of the     *)
(* statements of concurrent requests.  Time is the millisecond clock of    *)
(* Date.now(); an ISO-8601 timestamp produced by toISOString() has         *)
(* millisecond precision, so it is carried as that millisecond count.      *)
(***************************************************************************)
EXTENDS Integers, Sequences, FiniteSets, Bags, TLC

\* ------------------------------------------------------------------------
\* Bounds of the model
\* ------------------------------------------------------------------------
MaxReqs ==
    2

MaxSessions ==
    2

MaxTicks ==
    1

MaxCalls ==
    4

MaxRestarts ==
    1

\* change of Date.now() between two reads of the clock (milliseconds):
\* 125 s, 24 h 1.7 s, or the wall clock set back by 10 min
TickSteps ==
    {125000, 86401700, 0 - 600000}

UserIds ==
    {"alice", "bob"}

\* sessionData of a start request, a JSON object
Metadata ==
    {[source |-> "web"],
     [source |-> "web", cancellation_reason |-> "none"]}

Reasons ==
    {"Manual cancellation"}

ReqIds ==
    1..MaxReqs

SessionIds ==
    1..MaxSessions

\* an id no session was ever given
UnknownId ==
    0

\* SQL NULL / JavaScript undefined for a numeric column
NULL ==
    0 - 1

\* ------------------------------------------------------------------------
\* Error messages raised by the service, as character sequences
\* ------------------------------------------------------------------------
\* 'User already has an active learning session'
MsgAlreadyActive ==
    <<"U", "s", "e", "r", " ", "a", "l", "r", "e", "a", "d", "y", " ", "h",
      "a", "s", " ", "a", "n", " ", "a", "c", "t", "i", "v", "e", " ", "l",
      "e", "a", "r", "n", "i", "n", "g", " ", "s", "e", "s", "s", "i", "o",
      "n">>

\* 'No active session found with the provided ID'
MsgNoActiveSession ==
    <<"N", "o", " ", "a", "c", "t", "i", "v", "e", " ", "s", "e", "s", "s",
      "i", "o", "n", " ", "f", "o", "u", "n", "d", " ", "w", "i", "t", "h",
      " ", "t", "h", "e", " ", "p", "r", "o", "v", "i", "d", "e", "d", " ",
      "I", "D">>

\* 'Session not found or already completed'
MsgNotFoundOrCompleted ==
    <<"S", "e", "s", "s", "i", "o", "n", " ", "n", "o", "t", " ", "f", "o",
      "u", "n", "d", " ", "o", "r", " ", "a", "l", "r", "e", "a", "d", "y",
      " ", "c", "o", "m", "p", "l", "e", "t", "e", "d">>

\* 'Session does not belong to the specified user'
MsgNotOwner ==
    <<"S", "e", "s", "s", "i", "o", "n", " ", "d", "o", "e", "s", " ", "n",
      "o", "t", " ", "b", "e", "l", "o", "n", "g", " ", "t", "o", " ", "t",
      "h", "e", " ", "s", "p", "e", "c", "i", "f", "i", "e", "d", " ", "u",
      "s", "e", "r">>

\* 'Invalid session duration: negative time'
MsgNegativeDuration ==
    <<"I", "n", "v", "a", "l", "i", "d", " ", "s", "e", "s", "s", "i", "o",
      "n", " ", "d", "u", "r", "a", "t", "i", "o", "n", ":", " ", "n", "e",
      "g", "a", "t", "i", "v", "e", " ", "t", "i", "m", "e">>

\* 'SQLITE_ERROR: no such table: time_tracking_sessions'
MsgNoSuchTable ==
    <<"S", "Q", "L", "I", "T", "E", "_", "E", "R", "R", "O", "R", ":", " ",
      "n", "o", " ", "s", "u", "c", "h", " ", "t", "a", "b", "l", "e", ":",
      " ", "t", "i", "m", "e", "_", "t", "r", "a", "c", "k", "i", "n", "g",
      "_", "s", "e", "s", "s", "i", "o", "n", "s">>

Kw_database ==
    <<"d", "a", "t", "a", "b", "a", "s", "e">>

Kw_sqlite ==
    <<"s", "q", "l", "i", "t", "e">>

Kw_enoent ==
    <<"e", "n", "o", "e", "n", "t">>

Kw_constraint ==
    <<"c", "o", "n", "s", "t", "r", "a", "i", "n", "t">>

Kw_unique ==
    <<"u", "n", "i", "q", "u", "e">>

Kw_timeout ==
    <<"t", "i", "m", "e", "o", "u", "t">>

Kw_etimedout ==
    <<"e", "t", "i", "m", "e", "d", "o", "u", "t">>

Kw_econnrefused ==
    <<"e", "c", "o", "n", "n", "r", "e", "f", "u", "s", "e", "d">>

Kw_network ==
    <<"n", "e", "t", "w", "o", "r", "k">>

Kw_invalid ==
    <<"i", "n", "v", "a", "l", "i", "d">>

Kw_validation ==
    <<"v", "a", "l", "i", "d", "a", "t", "i", "o", "n">>
\* ------------------------------------------------------------------------
\* Error taxonomy (ErrorHandler)
\* ------------------------------------------------------------------------
UpperCase ==
    <<"A", "B", "C", "D", "E", "F", "G", "H", "I", "J", "K", "L", "M",
      "N", "O", "P", "Q", "R", "S", "T", "U", "V", "W", "X", "Y", "Z">>

LowerCase ==
    <<"a", "b", "c", "d", "e", "f", "g", "h", "i", "j", "k", "l", "m",
      "n", "o", "p", "q", "r", "s", "t", "u", "v", "w", "x", "y", "z">>

ToLowerChar(c) ==
    IF \E i \in 1..Len(UpperCase) : UpperCase[i] = c
    THEN LowerCase[CHOOSE i \in 1..Len(UpperCase) : UpperCase[i] = c]
    ELSE c

\* String.prototype.toLowerCase
ToLowerCase(s) ==
    [i \in 1..Len(s) |-> ToLowerChar(s[i])]

\* String.prototype.includes
Includes(s, sub) ==
    \E i \in 1..(Len(s) - Len(sub) + 1) : SubSeq(s, i, i + Len(sub) - 1) = sub

\* the thrown value: a plain Error raised by the service or the database
PlainError(msg) ==
    [custom |-> FALSE, message |-> msg, code |-> "UNKNOWN", statusCode |-> 0]

\* errorHandler.createError(message, code, statusCode)
CreateError(msg, code, statusCode) ==
    [custom |-> TRUE, message |-> msg, code |-> code, statusCode |-> statusCode]

Errors ==
    [ALREADY_ACTIVE     |-> PlainError(MsgAlreadyActive),
     NO_ACTIVE_SESSION  |-> PlainError(MsgNoActiveSession),
     NOT_FOUND          |-> PlainError(MsgNotFoundOrCompleted),
     NOT_OWNER          |-> PlainError(MsgNotOwner),
     NEGATIVE_DURATION  |-> PlainError(MsgNegativeDuration),
     NO_SUCH_TABLE      |-> PlainError(MsgNoSuchTable)]

CategorizeError(error) ==
    LET message == ToLowerCase(error.message) IN
    IF Includes(message, Kw_database) \/ Includes(message, Kw_sqlite)
       \/ Includes(message, Kw_enoent)
    THEN [code |-> "DATABASE_CONNECTION_ERROR", statusCode |-> 503]
    ELSE IF Includes(message, Kw_constraint) \/ Includes(message, Kw_unique)
    THEN [code |-> "DATABASE_CONSTRAINT_ERROR", statusCode |-> 409]
    ELSE IF Includes(message, Kw_timeout) \/ Includes(message, Kw_etimedout)
    THEN [code |-> "NETWORK_TIMEOUT", statusCode |-> 408]
    ELSE IF Includes(message, Kw_econnrefused) \/ Includes(message, Kw_network)
    THEN [code |-> "NETWORK_CONNECTION_ERROR", statusCode |-> 503]
    ELSE IF Includes(message, Kw_invalid) \/ Includes(message, Kw_validation)
    THEN [code |-> "INVALID_INPUT", statusCode |-> 400]
    ELSE [code |-> "INTERNAL_SERVER_ERROR", statusCode |-> 500]

\* the code and HTTP status of the response handleError sends
HandleError(error) ==
    IF error.custom
    THEN [code |-> error.code, statusCode |-> error.statusCode]
    ELSE CategorizeError(error)

\* the response to each error the service raises
ErrorResponse ==
    [err \in DOMAIN Errors |-> HandleError(Errors[err])]

\* the { success: true } response of a route
Success ==
    [code |-> "OK", statusCode |-> 200]

NoResponse ==
    [code |-> "-", statusCode |-> 0]
\* ------------------------------------------------------------------------
\* State
\* ------------------------------------------------------------------------
VARIABLES
    table,                \* durable rows of time_tracking_sessions, by id
    tableExists,          \* CREATE TABLE IF NOT EXISTS has run on this file
    activeSessionsCache,  \* the in-memory ActiveSessionIndex
    initialized,          \* TimeTrackerService.initialized
    initPc,               \* position of initializeAsync
    reqs,                 \* the requests being served, by slot
    nextId,               \* ids handed out so far, plus one
    clock,                \* Date.now() at the last read of the clock
    ticks,                \* reads that found the clock advanced
    epoch,                \* process restarts so far
    calls,                \* requests made so far
    bootQuiet,            \* history: no mutating call since this process booted
    requestCounts,        \* ErrorHandler.requestCounts: identifier -> timestamps
    limiterNow,           \* Date.now() at the last request to the limiter
    limiterTicks,         \* requests that found that clock advanced
    limiterCalls,         \* requests made to the limiter, by identifier
    limiterOut,           \* what the rate-limit middleware did with the last one
    limiterLog,           \* history: times of the admitted requests, by identifier
    routeIn,              \* the request a route is handling
    routeOut,             \* what the route did with it
    reportRows,           \* the rows of the table a report is computed from
    reportOut,            \* the report last computed
    localStorage,         \* the item under storageKey in the browser's localStorage
    clientNow,            \* the browser's Date.now() at the last call
    clientTicks,          \* calls that found that clock advanced
    clientOut,            \* the last call of the SessionStateManager and its result
    lastWrite,            \* history: the last saveState or clearState call
    storageEvent,         \* the storage event on its way to the other tabs
    tabEvents,            \* by tab: the last storage event handled, what it emitted
    constructed,          \* the page has constructed its SessionStateManager
    hidden,               \* document.hidden
    online,               \* the browser is online
    heartbeatTimer,       \* this.heartbeatTimer holds a timer
    armedTimers,          \* interval timers armed with performHeartbeat
    syncInProgress,       \* this.syncInProgress
    syncs,                \* the status requests of syncWithServer in flight
    syncCount,            \* status requests sent so far
    heartbeats,           \* heartbeat timer ticks so far
    pageEvents,           \* visibility and connectivity changes so far
    serverData,           \* what GET /status reports as data: the active session
    syncOut,              \* the last step of the synchronisation, what it emitted
    isLoading,            \* TimeTrackerComponent.isLoading
    isActive,             \* TimeTrackerComponent.isActive
    currentSessionId,     \* TimeTrackerComponent.currentSessionId is set
    retryQueue,           \* TimeTrackerComponent.retryQueue: the operations queued
    debounceTimer,        \* TimeTrackerComponent.debounceTimer is armed
    apiCalls,             \* the requests of makeApiCall in flight
    clicks,               \* clicks of the button (or shortcut) so far
    reloads,              \* loads of the page so far
    sent,                 \* history: the start, stop and cancel requests sent
    deletes,              \* DELETE statements run on the session rows so far
    tabActive,            \* by tab: TimeTrackerComponent.isActive of its page
    takeover              \* history: the tab that saved over an active tab

\* the session service (TimeTrackerService over its table)
serviceVars ==
    <<table, tableExists, activeSessionsCache, initialized, initPc, reqs,
      nextId, clock, ticks, epoch, calls, bootQuiet>>

\* the rate limiter of ErrorHandler
limiterVars ==
    <<requestCounts, limiterNow, limiterTicks, limiterCalls, limiterOut,
      limiterLog>>

\* a route, from the request to its reply or its call of the service
routeVars ==
    <<routeIn, routeOut>>

\* the reports over the table
reportVars ==
    <<reportRows, reportOut>>

\* the SessionStateManager of the page
clientVars ==
    <<localStorage, clientNow, clientTicks, clientOut, lastWrite,
      storageEvent, tabEvents>>

\* the heartbeat and the synchronisation of the SessionStateManager
syncVars ==
    <<constructed, hidden, online, heartbeatTimer, armedTimers,
      syncInProgress, syncs, syncCount, heartbeats, pageEvents, serverData,
      syncOut>>

\* the TimeTrackerComponent of the page
componentVars ==
    <<isLoading, isActive, currentSessionId, retryQueue, debounceTimer,
      apiCalls, clicks, reloads, sent>>

\* the deletions of session rows outside the session operations
maintenanceVars ==
    <<deletes>>

\* the pages of the tabs of one browser
tabVars ==
    <<tabActive, takeover>>

vars ==
    <<serviceVars, limiterVars, routeVars, reportVars, clientVars,
      syncVars, componentVars, maintenanceVars, tabVars>>

\* what an action of the session service leaves alone
beyondService ==
    <<limiterVars, routeVars, reportVars, clientVars, syncVars,
      componentVars, maintenanceVars, tabVars>>

\* what an action of the rate limiter leaves alone
beyondLimiter ==
    <<serviceVars, routeVars, reportVars, clientVars, syncVars,
      componentVars, maintenanceVars, tabVars>>

\* what a step of a route before its service call leaves alone
beyondRoutes ==
    <<serviceVars, limiterVars, reportVars, clientVars, syncVars,
      componentVars, maintenanceVars, tabVars>>

\* what the computation of a report leaves alone
beyondReports ==
    <<serviceVars, limiterVars, routeVars, clientVars, syncVars,
      componentVars, maintenanceVars, tabVars>>

\* what a call of the SessionStateManager leaves alone
beyondClient ==
    <<serviceVars, limiterVars, routeVars, reportVars, syncVars,
      componentVars, maintenanceVars, tabVars>>

\* what a step of the synchronisation leaves alone; the storage events of
\* its writes to the other tabs are not followed
beyondSync ==
    <<serviceVars, limiterVars, routeVars, reportVars, componentVars,
      maintenanceVars, tabVars,
      clientTicks, clientOut, lastWrite, storageEvent, tabEvents>>

\* what a step of the TimeTrackerComponent leaves alone; the storage events
\* of its writes to the other tabs are not followed
beyondComponent ==
    <<serviceVars, limiterVars, routeVars, reportVars, syncVars,
      maintenanceVars, tabVars,
      clientNow, clientTicks, clientOut, lastWrite, storageEvent, tabEvents>>

dbVars ==
    <<table, tableExists>>

initVars ==
    <<initialized, initPc>>

timeVars ==
    <<clock, ticks, epoch>>

EmptyMap ==
    [x \in {} |-> 0]

\* a free slot; the h-fields record what held when the request was made
Idle ==
    [op |-> "none", pc |-> "idle", userId |-> "-", sessionId |-> UnknownId,
     sessionData |-> EmptyMap, reason |-> "-", endTime |-> NULL, startTime |-> NULL,
     durationSeconds |-> NULL, elapsedSeconds |-> NULL,
     found |-> FALSE, response |-> NoResponse, error |-> "-",
     hInit |-> FALSE, hCached |-> "-", hRowActive |-> FALSE,
     hOnly |-> FALSE, hSolo |-> FALSE, hHadOne |-> FALSE]

InFlight(r) ==
    reqs[r].pc \notin {"idle", "done"}

\* a finished request's response is delivered before the next event is taken
Delivered ==
    \A r \in ReqIds : reqs[r].pc # "done"

\* a new request is served in the first free slot
FreeSlot(r) ==
    /\ calls < MaxCalls
    /\ reqs[r].pc = "idle"
    /\ \A q \in ReqIds : q < r => reqs[q].pc # "idle"

\* no other request is in flight
Alone(r) ==
    \A q \in ReqIds \ {r} : ~InFlight(q)

\* no other request on the same session is in flight
OnlyOn(r, sessionId) ==
    \A q \in ReqIds \ {r} : InFlight(q) => reqs[q].sessionId # sessionId

\* request rec enters slot r: the requests in flight are no longer alone
Joined(r, rec) ==
    [q \in ReqIds |->
        IF q = r THEN rec
        ELSE [reqs[q] EXCEPT
                !.hSolo = FALSE,
                !.hOnly = @ /\ (reqs[q].sessionId # rec.sessionId)]]

\* resolve(...) and res.json({ success: true, ... })
Resolved(rec) ==
    [rec EXCEPT !.pc = "done", !.response = Success]

\* reject(error) and errorHandler.handleError(error, req, res)
Rejected(rec, err) ==
    [rec EXCEPT !.pc = "done", !.error = err,
                !.response = ErrorResponse[err]]

\* variant of DurationSeconds: Math.round in place of Math.floor
DurationSecondsRounded(startTime, endTime) ==
    (endTime - startTime + 500) \div 1000

\* Math.floor((endTimeDate - startTime) / 1000)
DurationSeconds(startTime, endTime) ==
    (endTime - startTime) \div 1000

\* variant of DurationAccepted: a duration above 24 h is rejected as well
DurationAcceptedUpTo24h(durationSeconds) ==
    durationSeconds >= 0 /\ durationSeconds <= 86400

\* variant of DurationAccepted: no check of the sign
DurationAcceptedAny(durationSeconds) ==
    TRUE

\* if (durationSeconds < 0) reject; above 86400 only a warning is logged
DurationAccepted(durationSeconds) ==
    durationSeconds >= 0

\* Math.floor((now - startTime) / 1000)
ElapsedSeconds(startTime, now) ==
    (now - startTime) \div 1000

\* WHERE user_id = ? AND status = 'active' AND end_time IS NULL
ActiveRowsOf(userId) ==
    {id \in DOMAIN table : /\ table[id].user_id = userId
                           /\ table[id].status = "active"
                           /\ table[id].end_time = NULL}

\* variant of ExistingSession: the check asks the cache (hasActiveSession)
\* in place of the table
ExistingSessionInCache(userId) ==
    \E id \in DOMAIN activeSessionsCache :
        /\ activeSessionsCache[id].userId = userId
        /\ activeSessionsCache[id].status = "active"

\* the existence check of startLearningSession (LIMIT 1)
ExistingSession(userId) ==
    ActiveRowsOf(userId) # {}

\* variant of IncompleteSessions: the query omits status = 'active'
IncompleteSessionsAnyStatus ==
    {id \in DOMAIN table : table[id].end_time = NULL}

\* SELECT id, start_time ... WHERE status = 'active' AND end_time IS NULL
IncompleteSessions ==
    {id \in DOMAIN table : /\ table[id].status = "active"
                           /\ table[id].end_time = NULL}

\* SELECT start_time, user_id ... WHERE id = ? AND status = 'active'
ActiveRow(sessionId) ==
    /\ sessionId \in DOMAIN table
    /\ table[sessionId].status = "active"

\* ORDER BY start_time DESC LIMIT 1 over the user's active rows
LatestActive(userId) ==
    {id \in ActiveRowsOf(userId) :
        \A other \in ActiveRowsOf(userId) :
            table[other].start_time <= table[id].start_time}

\* variant of JsonSet: the object is replaced by one holding only the key
JsonSetAlone(json, key, value) ==
    [k \in {key} |-> value]

\* json_set(COALESCE(session_data, '{}'), '$.' + key, value)
JsonSet(json, key, value) ==
    [k \in DOMAIN json \cup {key} |-> IF k = key THEN value ELSE json[k]]

\* this.changes in a callback made with .bind(this): this is the
\* TimeTrackerService, which has no property changes, whatever the number
\* of rows the statement changed
BoundThisChanges(rowsChanged) ==
    NULL

\* activeSessionsCache.delete(sessionId)
CacheDelete(cache, sessionId) ==
    [id \in DOMAIN cache \ {sessionId} |-> cache[id]]

\* activeSessionsCache.get(sessionId), as the status of the entry
CachedStatus(sessionId) ==
    IF sessionId \in DOMAIN activeSessionsCache
    THEN activeSessionsCache[sessionId].status
    ELSE "undefined"

\* the ids a caller can name: those of existing rows, or one never given
CallableIds ==
    DOMAIN table \cup {UnknownId}

ServiceInit ==
    /\ table = EmptyMap
    /\ tableExists = FALSE
    /\ activeSessionsCache = EmptyMap
    /\ initialized = FALSE
    /\ initPc = "createTable"
    /\ reqs = [r \in ReqIds |-> Idle]
    /\ nextId = 1
    /\ clock = 0
    /\ ticks = 0
    /\ epoch = 0
    /\ calls = 0
    /\ bootQuiet = TRUE

\* ------------------------------------------------------------------------
\* Boot: constructor, initializeAsync, recoverIncompleteSessions
\* ------------------------------------------------------------------------
InitializeLearningSessionsTable ==
    /\ Delivered
    /\ initPc = "createTable"
    /\ tableExists' = TRUE
    /\ initPc' = "recover"
    /\ UNCHANGED beyondService
    /\ UNCHANGED <<calls, table, activeSessionsCache, initialized, reqs, nextId,
                   timeVars, bootQuiet>>

\* the recovery query and its callback, after which initialized is set
RecoverIncompleteSessions ==
    /\ Delivered
    /\ initPc = "recover"
    /\ activeSessionsCache' =
         [id \in DOMAIN activeSessionsCache \cup IncompleteSessions |->
            IF id \in IncompleteSessions
            THEN [userId |-> "undefined",
                  startTime |-> table[id].start_time,
                  status |-> "recovered"]
            ELSE activeSessionsCache[id]]
    /\ initialized' = TRUE
    /\ initPc' = "done"
    /\ UNCHANGED beyondService
    /\ UNCHANGED <<calls, dbVars, reqs, nextId, timeVars, bootQuiet>>

\* the process dies and a new TimeTrackerService is built over the same file
Restart ==
    /\ Delivered
    /\ epoch < MaxRestarts
    /\ epoch' = epoch + 1
    /\ activeSessionsCache' = EmptyMap
    /\ initialized' = FALSE
    /\ initPc' = "createTable"
    /\ reqs' = [r \in ReqIds |-> Idle]
    /\ bootQuiet' = TRUE
    /\ UNCHANGED beyondService
    /\ UNCHANGED <<dbVars, nextId, clock, ticks, calls>>

\* Date.now() read by a handler: the clock is d milliseconds further than
\* at the last read
Now(d) ==
    /\ d \in TickSteps \cup {0}
    /\ d # 0 => ticks < MaxTicks
    /\ clock' = clock + d
    /\ ticks' = IF d # 0 THEN ticks + 1 ELSE ticks
    /\ UNCHANGED epoch

Elapses ==
    TickSteps \cup {0}

\* ------------------------------------------------------------------------
\* POST /api/learning-sessions/start -> startLearningSession
\* ------------------------------------------------------------------------
\* starts that have not yet taken their id
StartsUnderWay ==
    Cardinality({q \in ReqIds : /\ reqs[q].op = "start"
                                /\ reqs[q].pc \in {"wait", "check"}})

StartCall(r, userId, sessionData) ==
    /\ Delivered
    /\ FreeSlot(r)
    /\ calls' = calls + 1
    /\ nextId + StartsUnderWay <= MaxSessions
    /\ reqs' = Joined(r, [Idle EXCEPT
                 !.op = "start",
                 !.pc = IF initialized THEN "check" ELSE "wait",
                 !.userId = userId,
                 !.sessionData = sessionData,
                 !.hInit = initialized,
                 !.hSolo = Alone(r),
                 !.hHadOne = (Cardinality(ActiveRowsOf(userId)) = 1)])
    /\ bootQuiet' = FALSE
    /\ UNCHANGED beyondService
    /\ UNCHANGED <<dbVars, activeSessionsCache, initVars, nextId, timeVars>>

\* waitForInitialization: the polling loop sees initialized = true
StartWake(r) ==
    /\ Delivered
    /\ reqs[r].op = "start"
    /\ reqs[r].pc = "wait"
    /\ initialized
    /\ reqs' = [reqs EXCEPT ![r].pc = "check"]
    /\ UNCHANGED beyondService
    /\ UNCHANGED <<calls, dbVars, activeSessionsCache, initVars, nextId, timeVars,
                   bootQuiet>>

\* the existence check and its callback: reject, or pick the id and the
\* start time and queue the INSERT
StartCheck(r, d) ==
    /\ Delivered
    /\ reqs[r].op = "start"
    /\ reqs[r].pc = "check"
    /\ IF ExistingSession(reqs[r].userId)
       THEN /\ reqs' = [reqs EXCEPT ![r] = Rejected(@, "ALREADY_ACTIVE")]
            /\ UNCHANGED <<nextId, timeVars>>
       ELSE /\ Now(d)
            /\ reqs' = [reqs EXCEPT ![r].pc = "insert",
                                    ![r].sessionId = nextId,
                                    ![r].startTime = clock']
            /\ nextId' = nextId + 1
    /\ UNCHANGED beyondService
    /\ UNCHANGED <<calls, dbVars, activeSessionsCache, initVars, bootQuiet>>

\* the INSERT and its callback: cache the session and resolve
StartInsert(r) ==
    /\ Delivered
    /\ reqs[r].op = "start"
    /\ reqs[r].pc = "insert"
    /\ table' = (reqs[r].sessionId :>
                   [user_id |-> reqs[r].userId,
                    start_time |-> reqs[r].startTime,
                    end_time |-> NULL,
                    duration_seconds |-> NULL,
                    status |-> "active",
                    session_data |-> reqs[r].sessionData]) @@ table
    /\ activeSessionsCache' =
         (reqs[r].sessionId :> [userId |-> reqs[r].userId,
                                startTime |-> reqs[r].startTime,
                                status |-> "active"]) @@ activeSessionsCache
    /\ reqs' = [reqs EXCEPT ![r] = Resolved(@)]
    /\ UNCHANGED beyondService
    /\ UNCHANGED <<calls, tableExists, initVars, nextId, timeVars, bootQuiet>>

\* ------------------------------------------------------------------------
\* POST /api/learning-sessions/stop -> stopLearningSession
\* ------------------------------------------------------------------------
StopCall(r, sessionId, userId, d) ==
    /\ Delivered
    /\ FreeSlot(r)
    /\ calls' = calls + 1
    /\ sessionId \in CallableIds
    /\ LET rec == [Idle EXCEPT
                     !.op = "stop",
                     !.userId = userId,
                     !.sessionId = sessionId,
                     !.hInit = initialized,
                     !.hCached = CachedStatus(sessionId),
                     !.hRowActive = ActiveRow(sessionId),
                     !.hOnly = OnlyOn(r, sessionId)]
       IN  IF sessionId \in DOMAIN activeSessionsCache
           THEN /\ Now(d)
                /\ reqs' = Joined(r, [rec EXCEPT !.pc = "select",
                                                 !.endTime = clock'])
           ELSE /\ reqs' = Joined(r, Rejected(rec, "NO_ACTIVE_SESSION"))
                /\ UNCHANGED timeVars
    /\ bootQuiet' = FALSE
    /\ UNCHANGED beyondService
    /\ UNCHANGED <<dbVars, activeSessionsCache, initVars, nextId>>

\* the SELECT of the active row and its callback: not found, not the owner,
\* negative duration, or queue the UPDATE
StopSelect(r) ==
    /\ Delivered
    /\ reqs[r].op = "stop"
    /\ reqs[r].pc = "select"
    /\ LET sessionId == reqs[r].sessionId IN
       IF ~ActiveRow(sessionId)
       THEN /\ activeSessionsCache' =
                 CacheDelete(activeSessionsCache, sessionId)
            /\ reqs' = [reqs EXCEPT ![r] = Rejected(@, "NOT_FOUND")]
       ELSE IF table[sessionId].user_id # reqs[r].userId
       THEN /\ reqs' = [reqs EXCEPT ![r] = Rejected(@, "NOT_OWNER")]
            /\ UNCHANGED activeSessionsCache
       ELSE LET durationSeconds ==
                    DurationSeconds(table[sessionId].start_time,
                                    reqs[r].endTime)
            IN  IF ~DurationAccepted(durationSeconds)
                THEN /\ reqs' = [reqs EXCEPT
                                   ![r] = Rejected(@, "NEGATIVE_DURATION")]
                     /\ UNCHANGED activeSessionsCache
                ELSE /\ reqs' = [reqs EXCEPT
                                   ![r].pc = "update",
                                   ![r].startTime = table[sessionId].start_time,
                                   ![r].durationSeconds = durationSeconds]
                     /\ UNCHANGED activeSessionsCache
    /\ UNCHANGED beyondService
    /\ UNCHANGED <<calls, dbVars, initVars, nextId, timeVars, bootQuiet>>

\* UPDATE ... SET end_time, duration_seconds, status = 'completed'
\*   WHERE id = ?, and its callback: drop the cache entry and resolve
StopUpdate(r) ==
    /\ Delivered
    /\ reqs[r].op = "stop"
    /\ reqs[r].pc = "update"
    /\ LET sessionId == reqs[r].sessionId IN
       /\ table' = IF sessionId \in DOMAIN table
                   THEN [table EXCEPT
                           ![sessionId].end_time = reqs[r].endTime,
                           ![sessionId].duration_seconds =
                               reqs[r].durationSeconds,
                           ![sessionId].status = "completed"]
                   ELSE table
       /\ activeSessionsCache' = CacheDelete(activeSessionsCache, sessionId)
    /\ reqs' = [reqs EXCEPT ![r] = Resolved(@)]
    /\ UNCHANGED beyondService
    /\ UNCHANGED <<calls, tableExists, initVars, nextId, timeVars, bootQuiet>>

\* ------------------------------------------------------------------------
\* POST /api/learning-sessions/cancel -> cancelSession
\* ------------------------------------------------------------------------
\* The call reads nothing before its one statement runs, so the call, the
\* UPDATE ... SET status = 'cancelled', session_data = json_set(...)
\* WHERE id = ? AND status = 'active' and its callback (database error,
\* this.changes === 0, or drop the cache entry and resolve) are one step.
CancelSession(r, sessionId, reason) ==
    /\ Delivered
    /\ FreeSlot(r)
    /\ calls' = calls + 1
    /\ sessionId \in CallableIds
    /\ LET rec == [Idle EXCEPT
                     !.op = "cancel",
                     !.sessionId = sessionId,
                     !.reason = reason,
                     !.hInit = initialized,
                     !.hCached = CachedStatus(sessionId),
                     !.hRowActive = ActiveRow(sessionId),
                     !.hOnly = OnlyOn(r, sessionId)]
           rowsChanged == IF ActiveRow(sessionId) THEN 1 ELSE 0
       IN
       IF ~tableExists
       THEN /\ reqs' = Joined(r, Rejected(rec, "NO_SUCH_TABLE"))
            /\ UNCHANGED <<table, activeSessionsCache>>
       ELSE /\ table' = IF ActiveRow(sessionId)
                        THEN [table EXCEPT
                                ![sessionId].status = "cancelled",
                                ![sessionId].session_data =
                                    JsonSet(@, "cancellation_reason", reason)]
                        ELSE table
            /\ IF BoundThisChanges(rowsChanged) = 0
               THEN /\ reqs' = Joined(r, Rejected(rec, "NOT_FOUND"))
                    /\ UNCHANGED activeSessionsCache
               ELSE /\ activeSessionsCache' =
                         CacheDelete(activeSessionsCache, sessionId)
                    /\ reqs' = Joined(r, Resolved(rec))
    /\ bootQuiet' = FALSE
    /\ UNCHANGED beyondService
    /\ UNCHANGED <<tableExists, initVars, nextId, timeVars>>

\* ------------------------------------------------------------------------
\* GET /api/learning-sessions/status -> getActiveSession
\* ------------------------------------------------------------------------
\* The call reads nothing before its one statement runs, so the call, the
\* SELECT of the user's latest active row and its callback (database error,
\* null, or the session with elapsedSeconds as of now) are one step.
GetActiveSession(r, userId, d) ==
    /\ Delivered
    /\ FreeSlot(r)
    /\ calls' = calls + 1
    /\ LET rec == [Idle EXCEPT
                     !.op = "status",
                     !.userId = userId,
                     !.hInit = initialized]
       IN
       IF ~tableExists
       THEN /\ reqs' = Joined(r, Rejected(rec, "NO_SUCH_TABLE"))
            /\ UNCHANGED timeVars
       ELSE IF LatestActive(userId) = {}
       THEN /\ reqs' = Joined(r, Resolved(rec))
            /\ UNCHANGED timeVars
       ELSE /\ Now(d)
            /\ \E id \in LatestActive(userId) :
                 reqs' = Joined(r, Resolved([rec EXCEPT
                           !.found = TRUE,
                           !.sessionId = id,
                           !.startTime = table[id].start_time,
                           !.elapsedSeconds =
                               ElapsedSeconds(table[id].start_time,
                                              clock')]))
    /\ UNCHANGED beyondService
    /\ UNCHANGED <<dbVars, activeSessionsCache, initVars, nextId, bootQuiet>>

\* the response has been delivered; the slot serves the next request
Respond(r) ==
    /\ reqs[r].pc = "done"
    /\ reqs' = [reqs EXCEPT ![r] = Idle]
    /\ UNCHANGED beyondService
    /\ UNCHANGED <<calls, dbVars, activeSessionsCache, initVars, nextId, timeVars,
                   bootQuiet>>

\* ------------------------------------------------------------------------
\* Rate limiter (ErrorHandler.checkRateLimit, rateLimitMiddleware), mounted
\* on /api/learning-sessions
\* ------------------------------------------------------------------------
\* this.rateLimitWindow, milliseconds
RateLimitWindow ==
    60000

\* this.maxRequestsPerWindow
MaxRequestsPerWindow ==
    100

\* requests one identifier makes beyond maxRequestsPerWindow
MaxExtraCalls ==
    2

\* requests made by the other identifiers
MaxOtherCalls ==
    2

MaxLimiterTicks ==
    1

\* req.ip of the caller that fills its window, and of another caller
Caller ==
    "10.0.0.1"

Identifiers ==
    {Caller, "10.0.0.2"}

\* time between two requests to the limiter (milliseconds): one
\* millisecond less than the window, or the window
LimiterSteps ==
    {59999, 60000}

LimiterElapses ==
    LimiterSteps \cup {0}

CallsAllowed(identifier) ==
    IF identifier = Caller
    THEN MaxRequestsPerWindow + MaxExtraCalls
    ELSE MaxOtherCalls

\* the error the middleware creates, as handleError responds to it
RateLimitError ==
    CreateError(<<"R", "a", "t", "e", " ", "l", "i", "m", "i", "t", " ",
                  "e", "x", "c", "e", "e", "d", "e", "d">>,
                "RATE_LIMIT_EXCEEDED", 429)

NoRequest ==
    [identifier |-> "-", allowed |-> FALSE, nextCalled |-> FALSE,
     response |-> NoResponse]

LimiterInit ==
    /\ requestCounts = EmptyMap
    /\ limiterNow = 0
    /\ limiterTicks = 0
    /\ limiterCalls = [identifier \in Identifiers |-> 0]
    /\ limiterOut = NoRequest
    /\ limiterLog = [identifier \in Identifiers |-> << >>]

LimiterNow(d) ==
    /\ d \in LimiterElapses
    /\ d # 0 => limiterTicks < MaxLimiterTicks
    /\ limiterNow' = limiterNow + d
    /\ limiterTicks' = IF d # 0 THEN limiterTicks + 1 ELSE limiterTicks

\* variant of InWindow: a request made exactly one window ago still counts
InWindowInclusive(timestamp, windowStart) ==
    timestamp >= windowStart

\* the test of requests.filter(timestamp => timestamp > windowStart)
InWindow(timestamp, windowStart) ==
    timestamp > windowStart

ValidRequests(requests, windowStart) ==
    SelectSeq(requests, LAMBDA timestamp : InWindow(timestamp, windowStart))

\* requestCounts after checkRateLimit(identifier) at time now, and its result
CheckRateLimit(identifier, now) ==
    LET windowStart == now - RateLimitWindow
        requests == IF identifier \in DOMAIN requestCounts
                    THEN requestCounts[identifier]
                    ELSE << >>
        validRequests == ValidRequests(requests, windowStart)
        allowed == ~(Len(validRequests) >= MaxRequestsPerWindow)
    IN  [allowed |-> allowed,
         requestCounts |->
            [id \in DOMAIN requestCounts \cup {identifier} |->
                IF id = identifier
                THEN IF allowed THEN Append(validRequests, now) ELSE requests
                ELSE requestCounts[id]]]

\* one request through the middleware: refused with the 429 error, or
\* passed on to the route by next()
RateLimitMiddleware(identifier, d) ==
    /\ limiterCalls[identifier] < CallsAllowed(identifier)
    /\ LimiterNow(d)
    /\ limiterCalls' = [limiterCalls EXCEPT ![identifier] = @ + 1]
    /\ LET check == CheckRateLimit(identifier, limiterNow') IN
       /\ requestCounts' = check.requestCounts
       /\ limiterLog' = IF check.allowed
                        THEN [limiterLog EXCEPT
                                ![identifier] = Append(@, limiterNow')]
                        ELSE limiterLog
       /\ limiterOut' =
            IF ~check.allowed
            THEN [identifier |-> identifier, allowed |-> FALSE,
                  nextCalled |-> FALSE,
                  response |-> HandleError(RateLimitError)]
            ELSE [identifier |-> identifier, allowed |-> TRUE,
                  nextCalled |-> TRUE, response |-> NoResponse]
    /\ UNCHANGED beyondLimiter

\* the five-minute timer: drop the timestamps outside the window, and the
\* identifiers left with none
CleanupRequestCounts ==
    /\ requestCounts # EmptyMap
    /\ LET cutoff == limiterNow - RateLimitWindow
           kept == {id \in DOMAIN requestCounts :
                      Len(ValidRequests(requestCounts[id], cutoff)) # 0}
       IN  requestCounts' =
             [id \in kept |-> ValidRequests(requestCounts[id], cutoff)]
    /\ UNCHANGED <<limiterNow, limiterTicks, limiterCalls, limiterOut,
                   limiterLog>>
    /\ UNCHANGED beyondLimiter

LimiterNext ==
    \/ \E identifier \in Identifiers, d \in LimiterElapses :
          RateLimitMiddleware(identifier, d)
    \/ CleanupRequestCounts

\* ------------------------------------------------------------------------
\* Input validation and error responses of the routes
\* ------------------------------------------------------------------------
\* longest userId string tried
MaxUserIdLen ==
    51

Digits ==
    <<"0", "1", "2", "3", "4", "5", "6", "7", "8", "9">>

Range(s) ==
    {s[i] : i \in 1..Len(s)}

\* n times the character c
Repeat(c, n) ==
    [i \in 1..n |-> c]

\* JavaScript values a request can carry as userId
JsString(chars) ==
    [type |-> "string", chars |-> chars]

JsOther ==
    {[type |-> t, chars |-> << >>] :
        t \in {"undefined", "null", "number", "boolean", "object"}}

\* characters tried at the first and at the last place of a userId
SampleChars ==
    {"a", "Z", "7", "_", "-", " ", ".", "@", "\n"}

UserIdInputs ==
    JsOther
    \cup {JsString(Repeat(c, n)) : c \in {"a", "Z", "7", "_"},
                                   n \in 0..MaxUserIdLen}
    \cup {JsString(<<c>> \o Repeat("a", n)) :
             c \in SampleChars, n \in {0, 1, 49, 50}}
    \cup {JsString(Repeat("a", n) \o <<c>>) :
             c \in SampleChars, n \in {1, 49, 50}}

\* [a-zA-Z0-9_]
UserIdChar(c) ==
    c \in Range(LowerCase) \cup Range(UpperCase) \cup Range(Digits) \cup {"_"}

\* variant of UserIdPattern: no upper limit on the length
UserIdPatternUnbounded(chars) ==
    /\ Len(chars) >= 1
    /\ \A i \in 1..Len(chars) : UserIdChar(chars[i])

\* /^[a-zA-Z0-9_]{1,50}$/.test(chars)
UserIdPattern(chars) ==
    /\ Len(chars) >= 1
    /\ Len(chars) <= 50
    /\ \A i \in 1..Len(chars) : UserIdChar(chars[i])

\* !value, for the values tried: undefined, null and the empty string are
\* falsy; a number or a boolean can be, and is refused by typeof anyway
Falsy(value) ==
    \/ value.type \in {"undefined", "null"}
    \/ value.type = "string" /\ Len(value.chars) = 0

\* ErrorHandler.validateUserId
ValidateUserId(userId) ==
    IF Falsy(userId) \/ userId.type # "string"
    THEN FALSE
    ELSE UserIdPattern(userId.chars)

\* const { userId = 'default_user' } = req.body
DefaultUser ==
    JsString(<<"d", "e", "f", "a", "u", "l", "t", "_", "u", "s", "e", "r">>)

Defaulted(value, default) ==
    IF value.type = "undefined" THEN default ELSE value

\* the value of a property that an object does not have
Undefined ==
    "undefined"

\* the values of this.errorCodes, each stored under its own name
ErrorCodes ==
    {"SESSION_NOT_FOUND", "SESSION_ALREADY_ACTIVE", "SESSION_INVALID_STATE",
     "SESSION_TIMEOUT", "DATABASE_CONNECTION_ERROR", "DATABASE_QUERY_ERROR",
     "DATABASE_CONSTRAINT_ERROR", "NETWORK_TIMEOUT",
     "NETWORK_CONNECTION_ERROR", "INVALID_INPUT", "INVALID_SESSION_ID",
     "INVALID_USER_ID", "INVALID_TIMESTAMP", "RATE_LIMIT_EXCEEDED",
     "TOO_MANY_REQUESTS", "INTERNAL_SERVER_ERROR", "SERVICE_UNAVAILABLE",
     "INSUFFICIENT_STORAGE"}

\* errorHandler.errorCodes.NAME
ErrorCodeNamed(name) ==
    IF name \in ErrorCodes THEN name ELSE Undefined

\* the keys of this.userFriendlyMessages
UserFriendlyCodes ==
    {"SESSION_NOT_FOUND", "SESSION_ALREADY_ACTIVE", "SESSION_INVALID_STATE",
     "SESSION_TIMEOUT", "DATABASE_CONNECTION_ERROR", "DATABASE_QUERY_ERROR",
     "NETWORK_TIMEOUT", "NETWORK_CONNECTION_ERROR", "INVALID_INPUT",
     "RATE_LIMIT_EXCEEDED", "INTERNAL_SERVER_ERROR", "SERVICE_UNAVAILABLE"}

GetUserFriendlyMessage(code) ==
    IF code \in UserFriendlyCodes
    THEN "userFriendlyMessages[code]"
    ELSE "An unexpected error occurred. Please try again."

\* the status and the error object of the response handleError sends
ErrorBody(error) ==
    IF error.custom
    THEN [statusCode |-> error.statusCode,
          code |-> error.code,
          message |-> GetUserFriendlyMessage(error.code),
          timestamp |-> "error.timestamp"]
    ELSE LET handledError == CategorizeError(error) IN
         [statusCode |-> handledError.statusCode,
          code |-> handledError.code,
          message |-> GetUserFriendlyMessage(handledError.code),
          timestamp |-> "new Date().toISOString()"]

\* JSON.stringify leaves out the keys whose value is undefined
JsonKeys(body) ==
    {k \in {"code", "message", "timestamp"} : body[k] # Undefined}

NoBody ==
    [statusCode |-> 0, code |-> "-", message |-> "-", timestamp |-> "-"]

\* 'Invalid user ID format'
MsgInvalidUserId ==
    <<"I", "n", "v", "a", "l", "i", "d", " ", "u", "s", "e", "r", " ", "I",
      "D", " ", "f", "o", "r", "m", "a", "t">>

\* 'monthsBack must be a number between 1 and 24'
MsgMonthsBack ==
    <<"m", "o", "n", "t", "h", "s", "B", "a", "c", "k", " ", "m", "u", "s",
      "t", " ", "b", "e", " ", "a", " ", "n", "u", "m", "b", "e", "r", " ",
      "b", "e", "t", "w", "e", "e", "n", " ", "1", " ", "a", "n", "d", " ",
      "2", "4">>

\* the words categorizeError looks for, and none
Keywords ==
    {Kw_database, Kw_sqlite, Kw_enoent, Kw_constraint, Kw_unique,
     Kw_timeout, Kw_etimedout, Kw_econnrefused, Kw_network, Kw_invalid,
     Kw_validation, << >>}

\* messages of the errors a route's catch block can receive: those the
\* service raises, and texts holding up to two of the keywords
ThrownMessages ==
    {Errors[err].message : err \in DOMAIN Errors}
    \cup {<<"E", "r", "r", ":", " ">> \o k1 \o <<" ", "X", " ">> \o k2 :
             k1 \in Keywords, k2 \in Keywords}

\* parseInt(monthsBack) for the query strings tried: NaN or an integer
MonthsBackNums ==
    {[nan |-> TRUE, n |-> 0]}
    \cup {[nan |-> FALSE, n |-> n] : n \in {0, 1, 6, 24, 25}}

NoMonths ==
    [nan |-> TRUE, n |-> 0]

RouteInputs ==
    {[route |-> "start", userId |-> u, monthsBackNum |-> NoMonths,
      message |-> << >>] : u \in UserIdInputs}
    \cup {[route |-> "calendar", userId |-> u, monthsBackNum |-> m,
           message |-> << >>] :
             u \in {DefaultUser, JsString(<<"a", "-", "b">>)},
             m \in MonthsBackNums}
    \cup {[route |-> "catch", userId |-> DefaultUser,
           monthsBackNum |-> NoMonths, message |-> msg] :
             msg \in ThrownMessages}

NoReply ==
    [sent |-> 0, passedOn |-> FALSE, userId |-> DefaultUser, body |-> NoBody]

\* errorHandler.handleError(error, req, res): one response is sent
Replied(error) ==
    [sent |-> 1, passedOn |-> FALSE, userId |-> DefaultUser,
     body |-> ErrorBody(error)]

\* the route goes on to call the service
PassedOn(userId) ==
    [sent |-> 0, passedOn |-> TRUE, userId |-> userId, body |-> NoBody]

RouteInit ==
    /\ routeIn = [route |-> "none", userId |-> DefaultUser,
                  monthsBackNum |-> NoMonths, message |-> << >>]
    /\ routeOut = NoReply

\* a request arrives at one of the routes
RouteRequest(request) ==
    /\ routeIn.route = "none"
    /\ routeIn' = request
    /\ UNCHANGED routeOut
    /\ UNCHANGED beyondRoutes

\* POST /api/learning-sessions/start, up to the call of the service
StartRoute ==
    /\ routeIn.route = "start"
    /\ routeOut = NoReply
    /\ LET userId == Defaulted(routeIn.userId, DefaultUser) IN
       routeOut' =
         IF ~ValidateUserId(userId)
         THEN Replied(CreateError(MsgInvalidUserId,
                                  ErrorCodeNamed("INVALID_USER_ID"), 400))
         ELSE PassedOn(userId)
    /\ UNCHANGED routeIn
    /\ UNCHANGED beyondRoutes

\* GET /api/time-tracking/calendar, up to the call of the service
CalendarRoute ==
    /\ routeIn.route = "calendar"
    /\ routeOut = NoReply
    /\ LET userId == Defaulted(routeIn.userId, DefaultUser)
           monthsBackNum == routeIn.monthsBackNum
       IN
       routeOut' =
         IF ~ValidateUserId(userId)
         THEN Replied(CreateError(MsgInvalidUserId,
                                  ErrorCodeNamed("INVALID_USER_ID"), 400))
         ELSE IF monthsBackNum.nan \/ monthsBackNum.n < 1
                 \/ monthsBackNum.n > 24
         THEN Replied(CreateError(MsgMonthsBack,
                                  ErrorCodeNamed("VALIDATION_ERROR"), 400))
         ELSE PassedOn(userId)
    /\ UNCHANGED routeIn
    /\ UNCHANGED beyondRoutes

\* catch (error) { errorHandler.handleError(error, req, res) } of a
\* /api/learning-sessions route, for an error the service or sqlite raised
CatchRoute ==
    /\ routeIn.route = "catch"
    /\ routeOut = NoReply
    /\ routeOut' = Replied(PlainError(routeIn.message))
    /\ UNCHANGED routeIn
    /\ UNCHANGED beyondRoutes

RouteNext ==
    \/ \E request \in RouteInputs : RouteRequest(request)
    \/ StartRoute
    \/ CalendarRoute
    \/ CatchRoute

\* ------------------------------------------------------------------------
\* Reports computed from the table: calculateLearningTime, getCalendarData,
\* calculateIntensity
\* ------------------------------------------------------------------------
\* The reports read user_id, start_time, status and duration_seconds of the
\* rows and never their ids, so the rows are kept as a bag.  Here a
\* timestamp is the number of seconds since 00:00 UTC of 1 January of a
\* year that, like the next one, is not a leap year.

\* rows in the table when a report is asked for
MaxReportRows ==
    3

\* largest minute count given to calculateIntensity
MaxMinutes ==
    130

\* days of the months of a year that is not a leap year
MonthLengths ==
    <<31, 28, 31, 30, 31, 30, 31, 31, 30, 31, 30, 31>>

RECURSIVE DaysBeforeMonth(_)
DaysBeforeMonth(month) ==
    IF month = 1 THEN 0
    ELSE DaysBeforeMonth(month - 1) + MonthLengths[month - 1]

\* the day number of year-month-day; a day beyond the month's end runs on
\* into the next month, as in sqlite's date arithmetic
DayIndex(year, month, day) ==
    year * 365 + DaysBeforeMonth(month) + day - 1

YearOf(dayIndex) ==
    dayIndex \div 365

MonthOf(dayIndex) ==
    CHOOSE month \in 1..12 :
        /\ DaysBeforeMonth(month) <= (dayIndex % 365)
        /\ (dayIndex % 365) < DaysBeforeMonth(month) + MonthLengths[month]

DayOfMonth(dayIndex) ==
    (dayIndex % 365) - DaysBeforeMonth(MonthOf(dayIndex)) + 1

\* date(timestamp): the UTC calendar day, as a day number
Date(timestamp) ==
    timestamp \div 86400

\* date('now', '-N days')
DaysBack(now, days) ==
    Date(now) - days

\* date('now', '-N months')
MonthsBack(now, months) ==
    LET today == Date(now)
        total == YearOf(today) * 12 + (MonthOf(today) - 1) - months
    IN  DayIndex(total \div 12, (total % 12) + 1, DayOfMonth(today))

\* start_time >= 'YYYY-MM-DD': the ISO timestamp compared, as text, with a
\* date; a timestamp of that day is the longer text and so not less
NotBefore(timestamp, dayIndex) ==
    Date(timestamp) >= dayIndex

\* Math.round(seconds / 60), seconds not negative
RoundedMinutes(seconds) ==
    (seconds + 30) \div 60

\* variant of calculateIntensity: 30 minutes still count as light
calculateIntensityLate(minutes) ==
    IF minutes = 0 THEN 0
    ELSE IF minutes <= 30 THEN 1
    ELSE IF minutes < 60 THEN 2
    ELSE IF minutes < 120 THEN 3
    ELSE 4

calculateIntensity(minutes) ==
    IF minutes = 0 THEN 0
    ELSE IF minutes < 30 THEN 1
    ELSE IF minutes < 60 THEN 2
    ELSE IF minutes < 120 THEN 3
    ELSE 4

\* the instants a report is asked at: noon of 31 March and of 15 July of
\* the second year
ReportNows ==
    {DayIndex(1, 3, 31) * 86400 + 43200, DayIndex(1, 7, 15) * 86400 + 43200}

\* start times of the rows: 31 March 08:00 and 20:00, 24 March, 3 March and
\* 2 March 23:59:59 of the second year
ReportStartTimes ==
    {DayIndex(1, 3, 31) * 86400 + 28800,
     DayIndex(1, 3, 31) * 86400 + 72000,
     DayIndex(1, 3, 24) * 86400,
     DayIndex(1, 3, 3) * 86400,
     DayIndex(1, 3, 2) * 86400 + 86399}

\* status and duration_seconds of the rows: as stopLearningSession and
\* cancelSession leave them
ReportOutcomes ==
    {[status |-> "completed", duration_seconds |-> 600],
     [status |-> "completed", duration_seconds |-> 1200],
     [status |-> "active", duration_seconds |-> NULL],
     [status |-> "cancelled", duration_seconds |-> NULL]}

ReportRows ==
    {[user_id |-> userId, start_time |-> startTime,
      status |-> outcome.status,
      duration_seconds |-> outcome.duration_seconds] :
        userId \in UserIds, startTime \in ReportStartTimes,
        outcome \in ReportOutcomes}

DateRanges ==
    {"today", "week", "month", "all"}

MonthsBackChoices ==
    {1, 6}

NoReport ==
    [op |-> "none"]

ReportInit ==
    /\ reportRows = EmptyBag
    /\ reportOut = NoReport

\* a session that was started, and stopped or cancelled or neither, before
\* the report is asked for
AddReportRow(row) ==
    /\ BagCardinality(reportRows) < MaxReportRows
    /\ reportRows' = reportRows (+) SetToBag({row})
    /\ reportOut' = NoReport
    /\ UNCHANGED beyondReports

RECURSIVE SumOver(_, _)
\* SUM(CASE WHEN duration_seconds IS NOT NULL THEN duration_seconds ELSE 0
\* END) over the rows of a bag
SumOver(rows, bag) ==
    IF rows = {} THEN 0
    ELSE LET row == CHOOSE row \in rows : TRUE
             seconds == IF row.duration_seconds # NULL
                        THEN row.duration_seconds ELSE 0
         IN  seconds * CopiesIn(row, bag) + SumOver(rows \ {row}, bag)

RECURSIVE CountOver(_, _)
\* COUNT(*) over the rows of a bag
CountOver(rows, bag) ==
    IF rows = {} THEN 0
    ELSE LET row == CHOOSE row \in rows : TRUE
         IN  CopiesIn(row, bag) + CountOver(rows \ {row}, bag)

\* variant of CalendarRows: cancelled sessions are not left out
CalendarRowsAnyStatus(userId, monthsBack, now) ==
    {row \in BagToSet(reportRows) :
        /\ row.user_id = userId
        /\ NotBefore(row.start_time, MonthsBack(now, monthsBack))}

\* WHERE user_id = ? AND start_time >= date('now', '-N months')
\*   AND status != 'cancelled'
CalendarRows(userId, monthsBack, now) ==
    {row \in BagToSet(reportRows) :
        /\ row.user_id = userId
        /\ NotBefore(row.start_time, MonthsBack(now, monthsBack))
        /\ row.status # "cancelled"}

\* getCalendarData: one entry for each date(start_time) of the rows chosen
GetCalendarData(userId, monthsBack, now) ==
    /\ reportOut = NoReport
    /\ LET rows == CalendarRows(userId, monthsBack, now)
           dates == {Date(row.start_time) : row \in rows}
           calendarData ==
             [date \in dates |->
                LET ofDate == {row \in rows : Date(row.start_time) = date}
                    total_seconds == SumOver(ofDate, reportRows)
                    totalMinutes == RoundedMinutes(total_seconds)
                IN  [sessions |-> CountOver(ofDate, reportRows),
                     completedSessions |->
                        CountOver({row \in ofDate :
                                     row.status = "completed"}, reportRows),
                     totalSeconds |-> total_seconds,
                     totalMinutes |-> totalMinutes,
                     hasActivity |-> total_seconds > 0,
                     intensity |-> calculateIntensity(totalMinutes)]]
       IN  reportOut' = [op |-> "calendar", userId |-> userId,
                         monthsBack |-> monthsBack, now |-> now,
                         data |-> calendarData]
    /\ UNCHANGED reportRows
    /\ UNCHANGED beyondReports

\* the date filter of calculateLearningTime
DateFilter(dateRange, startTime, now) ==
    CASE dateRange = "today" -> Date(startTime) = Date(now)
      [] dateRange = "week" -> NotBefore(startTime, DaysBack(now, 7))
      [] dateRange = "month" -> NotBefore(startTime, DaysBack(now, 30))
      [] OTHER -> TRUE

\* variant of LearningTimeRows: cancelled sessions are not left out
LearningTimeRowsAnyStatus(userId, dateRange, now) ==
    {row \in BagToSet(reportRows) :
        /\ row.user_id = userId
        /\ DateFilter(dateRange, row.start_time, now)}

\* WHERE user_id = ? AND status != 'cancelled' and the date filter
LearningTimeRows(userId, dateRange, now) ==
    {row \in BagToSet(reportRows) :
        /\ row.user_id = userId
        /\ row.status # "cancelled"
        /\ DateFilter(dateRange, row.start_time, now)}

\* calculateLearningTime; totalHours, a rounding of a floating-point
\* product, is not part of the model
CalculateLearningTime(userId, dateRange, now) ==
    /\ reportOut = NoReport
    /\ LET rows == LearningTimeRows(userId, dateRange, now)
           timed == {row \in rows : row.duration_seconds # NULL}
           total_seconds == SumOver(rows, reportRows)
           timedCount == CountOver(timed, reportRows)
           \* Math.round(avg_seconds / 60), avg_seconds = COALESCE(AVG, 0)
           avgMinutes ==
             IF timedCount = 0 THEN 0
             ELSE (2 * total_seconds + 60 * timedCount)
                    \div (120 * timedCount)
           startTimes == {row.start_time : row \in rows}
       IN  reportOut' =
             [op |-> "calculate", userId |-> userId,
              dateRange |-> dateRange, now |-> now,
              data |->
                [totalSessions |-> CountOver(rows, reportRows),
                 completedSessions |->
                    CountOver({row \in rows : row.status = "completed"},
                              reportRows),
                 activeSessions |->
                    CountOver({row \in rows : row.status = "active"},
                              reportRows),
                 totalSeconds |-> total_seconds,
                 totalMinutes |-> RoundedMinutes(total_seconds),
                 averageSessionMinutes |-> avgMinutes,
                 firstSession |->
                    IF startTimes = {} THEN NULL
                    ELSE CHOOSE t \in startTimes :
                           \A u \in startTimes : t <= u,
                 lastSession |->
                    IF startTimes = {} THEN NULL
                    ELSE CHOOSE t \in startTimes :
                           \A u \in startTimes : t >= u]]
    /\ UNCHANGED reportRows
    /\ UNCHANGED beyondReports

\* calculateIntensity(minutes) on its own
CalculateIntensity(minutes) ==
    /\ reportOut = NoReport
    /\ reportOut' = [op |-> "intensity", minutes |-> minutes,
                     data |-> calculateIntensity(minutes)]
    /\ UNCHANGED reportRows
    /\ UNCHANGED beyondReports

ReportNext ==
    \/ \E row \in ReportRows : AddReportRow(row)
    \/ \E userId \in UserIds, monthsBack \in MonthsBackChoices,
          now \in ReportNows : GetCalendarData(userId, monthsBack, now)
    \/ \E userId \in UserIds, dateRange \in DateRanges, now \in ReportNows :
          CalculateLearningTime(userId, dateRange, now)

IntensityNext ==
    \E minutes \in 0..MaxMinutes : CalculateIntensity(minutes)

\* ------------------------------------------------------------------------
\* Browser side: SessionStateManager over localStorage
\* ------------------------------------------------------------------------
\* reads of the browser clock that find it advanced
MaxClientTicks ==
    2

\* the tabs of one browser on the page; each keeps its tabId in its own
\* sessionStorage
TabIds ==
    {"tab_1", "tab_2"}

\* time between two calls (milliseconds): 10 min, 24 h, 30 h
ClientSteps ==
    {600000, 86400000, 108000000}

ClientElapses ==
    ClientSteps \cup {0}

\* the session states the page saves
ClientStates ==
    {[isActive |-> TRUE, sessionId |-> "session_1", startTime |-> 0,
      status |-> "active"],
     [isActive |-> TRUE, sessionId |-> "session_1", startTime |-> 0,
      status |-> "interrupted", interruptedAt |-> 0],
     [isActive |-> FALSE, status |-> "stopped", version |-> 0]}

\* localStorage.getItem(storageKey) === null
NoItem ==
    [present |-> FALSE, value |-> EmptyMap]

\* the stored text, as the object JSON.parse makes of it
Item(stateData) ==
    [present |-> TRUE, value |-> stateData]

NoCall ==
    [op |-> "none", tab |-> "-", at |-> 0, ret |-> NoItem]

\* no saveState or clearState yet; replaced is the item a write found stored
NoWrite ==
    [op |-> "none", tab |-> "-", at |-> 0, ret |-> NoItem,
     replaced |-> NoItem]

\* no storage event on its way
NoStorageEvent ==
    [to |-> {}, writer |-> "-", newValue |-> NoItem, oldValue |-> NoItem]

\* triggerEvent('sessionConflict', ...) not called
NoConflict ==
    [emitted |-> FALSE, activeTab |-> "-", currentTab |-> "-"]

\* a tab that has handled no storage event
NoTabEvent ==
    [seen |-> FALSE, writer |-> "-", newValue |-> NoItem,
     conflict |-> NoConflict]

ClientInit ==
    /\ localStorage = NoItem
    /\ clientNow = 0
    /\ clientTicks = 0
    /\ clientOut = NoCall
    /\ lastWrite = NoWrite
    /\ storageEvent = NoStorageEvent
    /\ tabEvents = [tab \in TabIds |-> NoTabEvent]

ClientNow(d) ==
    /\ d \in ClientElapses
    /\ d # 0 => clientTicks < MaxClientTicks
    /\ clientNow' = clientNow + d
    /\ clientTicks' = IF d # 0 THEN clientTicks + 1 ELSE clientTicks

\* { ...a, ...b }
Spread(a, b) ==
    [k \in DOMAIN a \cup DOMAIN b |-> IF k \in DOMAIN b THEN b[k] ELSE a[k]]

\* variant of StateData: the fields of the state given win over the stamp
StateDataStampFirst(sessionData, now, tabId) ==
    Spread([lastUpdated |-> now, tabId |-> tabId, version |-> 1],
           sessionData)

\* { ...sessionData, lastUpdated: now, tabId: this.getTabId(), version: 1 }
StateData(sessionData, now, tabId) ==
    Spread(sessionData,
           [lastUpdated |-> now, tabId |-> tabId, version |-> 1])

\* SessionStateManager.validateStateData
ValidateStateData(stateData) ==
    \A field \in {"lastUpdated", "version"} : field \in DOMAIN stateData

\* variant of TooOld: a state of exactly 24 hours is too old already
TooOldFrom24h(lastUpdated, now) ==
    now - lastUpdated >= 24 * (1000 * 60 * 60)

\* hoursDiff > 24, hoursDiff = (now - lastUpdated) / (1000 * 60 * 60)
TooOld(lastUpdated, now) ==
    now - lastUpdated > 24 * (1000 * 60 * 60)

\* the storage event of a setItem or removeItem by a tab: the browser sends
\* it to every other tab, and only if the stored item changed
StorageEventOf(tab, newItem) ==
    IF newItem = localStorage
    THEN NoStorageEvent
    ELSE [to |-> TabIds \ {tab}, writer |-> tab, newValue |-> newItem,
          oldValue |-> localStorage]

\* the tabs have handled the storage event of the write before
Handled ==
    storageEvent.to = {}

\* what loadState finds at time now: the stored item, or nothing if there
\* is none or it is malformed or too old (and then it is removed)
Loaded(now) ==
    IF /\ localStorage.present
       /\ ValidateStateData(localStorage.value)
       /\ ~TooOld(localStorage.value.lastUpdated, now)
    THEN localStorage
    ELSE NoItem

\* state[field] is truthy, for a boolean field
Truthy(state, field) ==
    field \in DOMAIN state /\ state[field] = TRUE

\* SessionStateManager.saveState in a tab
SaveState(tab, sessionData, d) ==
    /\ Handled
    /\ ClientNow(d)
    /\ localStorage' = Item(StateData(sessionData, clientNow', tab))
    /\ storageEvent' = StorageEventOf(tab, localStorage')
    /\ clientOut' = [op |-> "saveState", tab |-> tab, at |-> clientNow',
                     ret |-> NoItem]
    /\ lastWrite' = [op |-> "saveState", tab |-> tab, at |-> clientNow',
                     ret |-> Item(sessionData), replaced |-> localStorage]
    /\ UNCHANGED tabEvents
    /\ UNCHANGED beyondClient

\* SessionStateManager.loadState in a tab: null without a stored value,
\* null and the value removed if it is malformed or too old, else the value
LoadState(tab, d) ==
    /\ Handled
    /\ ClientNow(d)
    /\ localStorage' = Loaded(clientNow')
    /\ storageEvent' = StorageEventOf(tab, localStorage')
    /\ clientOut' = [op |-> "loadState", tab |-> tab, at |-> clientNow',
                     ret |-> Loaded(clientNow')]
    /\ UNCHANGED <<lastWrite, tabEvents>>
    /\ UNCHANGED beyondClient

\* SessionStateManager.clearState in a tab
ClearState(tab) ==
    /\ Handled
    /\ localStorage' = NoItem
    /\ storageEvent' = StorageEventOf(tab, NoItem)
    /\ clientOut' = [op |-> "clearState", tab |-> tab, at |-> clientNow,
                     ret |-> NoItem]
    /\ lastWrite' = [op |-> "clearState", tab |-> tab, at |-> clientNow,
                     ret |-> NoItem, replaced |-> localStorage]
    /\ UNCHANGED <<clientNow, clientTicks, tabEvents>>
    /\ UNCHANGED beyondClient

\* Math.floor((now - lastUpdated) / (1000 * 60))
MinutesAgo(lastUpdated, now) ==
    (now - lastUpdated) \div (1000 * 60)

\* the object getRecoveryData returns for a loaded state with a sessionId
RecoveryData(state, now) ==
    [sessionId |-> state.sessionId,
     startTime |-> state.startTime,
     lastUpdated |-> state.lastUpdated,
     minutesAgo |-> MinutesAgo(state.lastUpdated, now),
     canRecover |-> MinutesAgo(state.lastUpdated, now) < 1440,
     isInterrupted |-> ("status" \in DOMAIN state
                        /\ state.status = "interrupted")]

\* SessionStateManager.getRecoveryData in a tab: null if loadState returns
\* null or the state has no sessionId
GetRecoveryData(tab, d) ==
    /\ Handled
    /\ ClientNow(d)
    /\ localStorage' = Loaded(clientNow')
    /\ storageEvent' = StorageEventOf(tab, localStorage')
    /\ LET state == Loaded(clientNow')
       IN  clientOut' =
             [op |-> "getRecoveryData", tab |-> tab, at |-> clientNow',
              ret |-> IF state.present /\ "sessionId" \in DOMAIN state.value
                      THEN Item(RecoveryData(state.value, clientNow'))
                      ELSE NoItem]
    /\ UNCHANGED <<lastWrite, tabEvents>>
    /\ UNCHANGED beyondClient

\* variant of Interrupted: the status is left as it was
InterruptedAtOnly(currentState, now) ==
    Spread(currentState, [interruptedAt |-> now])

\* { ...currentState, status: 'interrupted', interruptedAt: now }
Interrupted(currentState, now) ==
    Spread(currentState, [status |-> "interrupted", interruptedAt |-> now])

\* SessionStateManager.handlePageUnload in a tab (beforeunload): the current
\* state is what loadState returns
HandlePageUnload(tab, d) ==
    /\ Handled
    /\ ClientNow(d)
    /\ LET currentState == Loaded(clientNow')
           saves == currentState.present
                    /\ Truthy(currentState.value, "isActive")
           sessionData == Interrupted(currentState.value, clientNow')
       IN  /\ localStorage' =
                IF saves THEN Item(StateData(sessionData, clientNow', tab))
                ELSE currentState
           /\ clientOut' = [op |-> "handlePageUnload", tab |-> tab,
                            at |-> clientNow',
                            ret |-> IF saves THEN localStorage' ELSE NoItem]
           /\ lastWrite' =
                IF saves
                THEN [op |-> "saveState", tab |-> tab, at |-> clientNow',
                      ret |-> Item(sessionData), replaced |-> localStorage]
                ELSE lastWrite
    /\ storageEvent' = StorageEventOf(tab, localStorage')
    /\ UNCHANGED tabEvents
    /\ UNCHANGED beyondClient

\* variant of HandleTabConflicts: any state written by another tab conflicts
HandleTabConflictsAnyState(currentTabId, newState) ==
    IF newState.present /\ newState.value.tabId # currentTabId
    THEN [emitted |-> TRUE, activeTab |-> newState.value.tabId,
          currentTab |-> currentTabId]
    ELSE NoConflict

\* SessionStateManager.handleTabConflicts: the sessionConflict it triggers
HandleTabConflicts(currentTabId, newState) ==
    IF /\ newState.present
       /\ newState.value.tabId # currentTabId
       /\ Truthy(newState.value, "isActive")
    THEN [emitted |-> TRUE, activeTab |-> newState.value.tabId,
          currentTab |-> currentTabId]
    ELSE NoConflict

\* SessionStateManager.handleStorageChange in a tab the event was sent to
HandleStorageChange(tab) ==
    /\ tab \in storageEvent.to
    /\ tabEvents' =
         [tabEvents EXCEPT ![tab] =
            [seen |-> TRUE, writer |-> storageEvent.writer,
             newValue |-> storageEvent.newValue,
             conflict |-> HandleTabConflicts(tab, storageEvent.newValue)]]
    /\ storageEvent' = IF storageEvent.to = {tab}
                       THEN NoStorageEvent
                       ELSE [storageEvent EXCEPT !.to = @ \ {tab}]
    /\ UNCHANGED <<localStorage, clientNow, clientTicks, clientOut,
                   lastWrite>>
    /\ UNCHANGED beyondClient

ClientNext ==
    \/ \E tab \in TabIds, sessionData \in ClientStates, d \in ClientElapses :
          SaveState(tab, sessionData, d)
    \/ \E tab \in TabIds, d \in ClientElapses : LoadState(tab, d)
    \/ \E tab \in TabIds : ClearState(tab)
    \/ \E tab \in TabIds, d \in ClientElapses : GetRecoveryData(tab, d)
    \/ \E tab \in TabIds, d \in ClientElapses : HandlePageUnload(tab, d)
    \/ \E tab \in TabIds : HandleStorageChange(tab)
\* ------------------------------------------------------------------------
\* Browser side: heartbeat, visibility, connectivity and the
\* synchronisation with the server of one page's SessionStateManager
\* ------------------------------------------------------------------------
\* this.heartbeatInterval (milliseconds)
HeartbeatInterval ==
    30000

\* config.apiTimeout of the page (milliseconds)
ApiTimeout ==
    5000

\* ticks of the heartbeat timer
MaxHeartbeats ==
    2

\* status requests sent by syncWithServer
MaxSyncs ==
    3

\* visibility and connectivity changes of the page
MaxPageEvents ==
    3

\* the tab of the page whose manager is followed
PageTab ==
    "tab_1"

\* the states given to saveState: the page's own (startSession,
\* restoreActiveSession), and one that is not active
SyncStates ==
    {[isActive |-> TRUE, sessionId |-> "session_1", startTime |-> 0,
      status |-> "active"],
     [isActive |-> FALSE, sessionId |-> "session_1", startTime |-> 0,
      status |-> "paused"]}

\* the data of GET /api/learning-sessions/status for an active session
\* (getActiveSession; elapsedMinutes, timezoneOffset and sessionData are
\* carried the same way)
ActiveSessionData(now) ==
    Item([sessionId |-> "session_1", startTime |-> 0,
          elapsedSeconds |-> now \div 1000])

NoSync ==
    [op |-> "none", origin |-> "-", fetched |-> FALSE, skipped |-> FALSE,
     local |-> NoItem, cache |-> NoItem, server |-> NoItem,
     discrepancies |-> {}, at |-> 0]

SyncInit ==
    /\ constructed = FALSE
    /\ hidden = FALSE
    /\ online = TRUE
    /\ heartbeatTimer = FALSE
    /\ armedTimers = 0
    /\ syncInProgress = FALSE
    /\ syncs = {}
    /\ syncCount = 0
    /\ heartbeats = 0
    /\ pageEvents = 0
    /\ serverData = NoItem
    /\ syncOut = NoSync

\* loadState() returned a state with a sessionId: syncWithServer goes on
HasSession(localState) ==
    localState.present /\ "sessionId" \in DOMAIN localState.value

\* syncWithServer called at time now, once for each of origins, up to its
\* await of fetch: loadState, and the request sent if there is a session
SyncWithServer(origins, now) ==
    LET localState == Loaded(now)
        sends == HasSession(localState)
    IN  /\ sends => syncCount + Len(origins) <= MaxSyncs
        /\ localStorage' = localState
        /\ syncs' = IF sends
                    THEN syncs \cup
                         {[n |-> syncCount + i, origin |-> origins[i],
                           local |-> localState, sentAt |-> now] :
                            i \in 1..Len(origins)}
                    ELSE syncs
        /\ syncCount' = IF sends THEN syncCount + Len(origins)
                        ELSE syncCount
        /\ syncOut' = [op |-> "syncWithServer",
                       origin |-> origins[Len(origins)],
                       fetched |-> sends, skipped |-> FALSE,
                       local |-> localState, cache |-> localStorage,
                       server |-> serverData, discrepancies |-> {},
                       at |-> now]

\* the page constructs its SessionStateManager: loadState, startHeartbeat
Construct ==
    /\ ~constructed
    /\ constructed' = TRUE
    /\ localStorage' = Loaded(clientNow)
    /\ heartbeatTimer' = TRUE
    /\ armedTimers' = IF heartbeatTimer THEN armedTimers ELSE armedTimers + 1
    /\ syncOut' = [NoSync EXCEPT !.op = "constructor", !.at = clientNow]
    /\ UNCHANGED <<hidden, online, syncInProgress, syncs, syncCount,
                   heartbeats, pageEvents, serverData, clientNow>>
    /\ UNCHANGED beyondSync

\* the page is hidden or shown (visibilitychange); with a manager,
\* handleVisibilityChange: pauseHeartbeat, or resumeHeartbeat and
\* syncWithServer
VisibilityChange ==
    /\ pageEvents < MaxPageEvents
    /\ pageEvents' = pageEvents + 1
    /\ hidden' = ~hidden
    /\ IF ~constructed
       THEN UNCHANGED <<heartbeatTimer, armedTimers, localStorage, syncs,
                        syncCount, syncOut>>
       ELSE IF hidden'
       THEN /\ heartbeatTimer' = FALSE
            /\ armedTimers' = IF heartbeatTimer THEN armedTimers - 1
                              ELSE armedTimers
            /\ syncOut' = [NoSync EXCEPT !.op = "sessionPaused",
                                         !.at = clientNow]
            /\ UNCHANGED <<localStorage, syncs, syncCount>>
       ELSE /\ heartbeatTimer' = TRUE
            /\ armedTimers' = IF heartbeatTimer THEN armedTimers
                              ELSE armedTimers + 1
            /\ SyncWithServer(<<"visible">>, clientNow)
    /\ UNCHANGED <<constructed, online, syncInProgress, heartbeats,
                   serverData, clientNow>>
    /\ UNCHANGED beyondSync

\* the browser goes offline or online; with a manager,
\* handleOnlineStatusChange: online, it calls syncWithServer and triggers
\* connectionRestored, on which the page calls syncWithServer again;
\* offline, it triggers connectionLost, on which the page shows a status
OnlineStatusChange ==
    /\ pageEvents < MaxPageEvents
    /\ pageEvents' = pageEvents + 1
    /\ online' = ~online
    /\ IF ~constructed
       THEN UNCHANGED <<localStorage, syncs, syncCount, syncOut>>
       ELSE IF online'
       THEN SyncWithServer(<<"online", "connectionRestored">>, clientNow)
       ELSE /\ syncOut' = [NoSync EXCEPT !.op = "connectionLost",
                                         !.cache = localStorage,
                                         !.at = clientNow]
            /\ UNCHANGED <<localStorage, syncs, syncCount>>
    /\ UNCHANGED <<constructed, hidden, heartbeatTimer, armedTimers,
                   syncInProgress, heartbeats, serverData, clientNow>>
    /\ UNCHANGED beyondSync

\* an armed heartbeat timer fires, heartbeatInterval after it was armed or
\* last fired: performHeartbeat
PerformHeartbeat ==
    /\ armedTimers > 0
    /\ heartbeats < MaxHeartbeats
    /\ heartbeats' = heartbeats + 1
    /\ clientNow' = clientNow + HeartbeatInterval
    /\ IF syncInProgress
       THEN /\ syncOut' = [NoSync EXCEPT !.op = "performHeartbeat",
                                         !.origin = "heartbeat",
                                         !.skipped = TRUE,
                                         !.cache = localStorage,
                                         !.server = serverData,
                                         !.at = clientNow']
            /\ UNCHANGED <<localStorage, syncs, syncCount, syncInProgress>>
       ELSE /\ SyncWithServer(<<"heartbeat">>, clientNow')
            /\ syncInProgress' = HasSession(Loaded(clientNow'))
    /\ UNCHANGED <<constructed, hidden, online, heartbeatTimer, armedTimers,
                   pageEvents, serverData>>
    /\ UNCHANGED beyondSync

\* the sessionDiscrepancy events of resolveStateConflicts, by type
Discrepancies(localState, serverState) ==
    (IF ~serverState.present /\ Truthy(localState.value, "isActive")
     THEN {"local_active_server_inactive"} ELSE {})
    \cup
    (IF serverState.present /\ ~Truthy(localState.value, "isActive")
     THEN {"server_active_local_inactive"} ELSE {})

\* the answer to a status request arrives: resolveStateConflicts on the
\* state loaded before the request and the server's state
SyncResponse(s) ==
    /\ s \in syncs
    /\ online
    /\ LET serverState == IF serverData.present
                          THEN ActiveSessionData(clientNow) ELSE NoItem
       IN  /\ localStorage' =
                IF serverState.present
                THEN Item(StateData(
                            Spread(Spread(s.local.value, serverState.value),
                                   [lastSyncedAt |-> clientNow]),
                            clientNow, PageTab))
                ELSE localStorage
           /\ syncOut' = [op |-> "resolveStateConflicts",
                          origin |-> s.origin, fetched |-> TRUE,
                          skipped |-> FALSE, local |-> s.local,
                          cache |-> localStorage, server |-> serverState,
                          discrepancies |->
                              Discrepancies(s.local, serverState),
                          at |-> clientNow]
    /\ syncs' = syncs \ {s}
    /\ syncInProgress' = IF s.origin = "heartbeat" THEN FALSE
                         ELSE syncInProgress
    /\ UNCHANGED <<constructed, hidden, online, heartbeatTimer, armedTimers,
                   syncCount, heartbeats, pageEvents, serverData, clientNow>>
    /\ UNCHANGED beyondSync

\* a status request fails (network error, or a response that is not ok):
\* handleOfflineSync
SyncFailure(s) ==
    /\ s \in syncs
    /\ localStorage' =
         Item(StateData(Spread(s.local.value,
                               [pendingSync |-> TRUE,
                                lastSyncAttempt |-> clientNow]),
                        clientNow, PageTab))
    /\ syncOut' = [op |-> "handleOfflineSync", origin |-> s.origin,
                   fetched |-> TRUE, skipped |-> FALSE, local |-> s.local,
                   cache |-> localStorage, server |-> NoItem,
                   discrepancies |-> {}, at |-> clientNow]
    /\ syncs' = syncs \ {s}
    /\ syncInProgress' = IF s.origin = "heartbeat" THEN FALSE
                         ELSE syncInProgress
    /\ UNCHANGED <<constructed, hidden, online, heartbeatTimer, armedTimers,
                   syncCount, heartbeats, pageEvents, serverData, clientNow>>
    /\ UNCHANGED beyondSync

\* the page saves its state (startSession, restoreActiveSession)
PageSaves(sessionData) ==
    /\ constructed
    /\ localStorage' = Item(StateData(sessionData, clientNow, PageTab))
    /\ localStorage' # localStorage
    /\ UNCHANGED <<clientNow, syncVars>>
    /\ UNCHANGED beyondSync

\* the page clears its state (stopSession, setActiveState(false))
PageClears ==
    /\ constructed
    /\ localStorage.present
    /\ localStorage' = NoItem
    /\ UNCHANGED <<clientNow, syncVars>>
    /\ UNCHANGED beyondSync

\* a session of the user starts or ends on the server
ServerChange ==
    /\ serverData' = IF serverData.present THEN NoItem
                     ELSE ActiveSessionData(0)
    /\ UNCHANGED <<localStorage, clientNow, constructed, hidden, online,
                   heartbeatTimer, armedTimers, syncInProgress, syncs,
                   syncCount, heartbeats, pageEvents, syncOut>>
    /\ UNCHANGED beyondSync

SyncNext ==
    \/ Construct
    \/ VisibilityChange
    \/ OnlineStatusChange
    \/ PerformHeartbeat
    \/ \E s \in syncs : SyncResponse(s)
    \/ \E s \in syncs : SyncFailure(s)
    \/ \E sessionData \in SyncStates : PageSaves(sessionData)
    \/ PageClears
    \/ ServerChange

\* ------------------------------------------------------------------------
\* Browser side: the TimeTrackerComponent of the page and its requests
\* ------------------------------------------------------------------------
\* clicks of the button, or uses of the keyboard shortcut
MaxClicks ==
    3

\* loads of the page
MaxReloads ==
    2

\* how a request of makeApiCall ends: a success answer (for the status,
\* with an active session), a status answer without an active session, an
\* error (network error, or an answer that is not ok or not a success), or
\* the abort after apiTimeout
ApiOutcomes ==
    {"success", "inactive", "error", "timeout"}

\* the state the page saves on a start or a restore
ActiveState ==
    [isActive |-> TRUE, sessionId |-> "session_1", startTime |-> 0,
     status |-> "active"]

\* a request of makeApiCall and the user action or page load it came from
ApiCall(endpoint, kind, n) ==
    [endpoint |-> endpoint, cause |-> [kind |-> kind, n |-> n]]

ComponentInit ==
    /\ isLoading = FALSE
    /\ isActive = FALSE
    /\ currentSessionId = FALSE
    /\ retryQueue = << >>
    /\ debounceTimer = FALSE
    /\ apiCalls = {}
    /\ clicks = 0
    /\ reloads = 0
    /\ sent = << >>

\* the page is loaded (again), and whatever the page before had in flight
\* is dropped with it: the constructors, then checkForExistingSessions up
\* to its first request. With a session to recover the user is asked
\* (confirm), and declines or not.
LoadPage(declines) ==
    /\ reloads < MaxReloads
    /\ reloads' = reloads + 1
    /\ isLoading' = FALSE
    /\ isActive' = FALSE
    /\ currentSessionId' = FALSE
    /\ retryQueue' = << >>
    /\ debounceTimer' = FALSE
    /\ localStorage' = Loaded(clientNow)
    /\ LET state == Loaded(clientNow)
           recovers == /\ HasSession(state)
                       /\ RecoveryData(state.value, clientNow).canRecover
       IN  /\ declines => recovers
           /\ apiCalls' =
                IF declines
                THEN {ApiCall("cancel", "decline", reloads')}
                ELSE {ApiCall("status",
                              IF recovers THEN "recovery" ELSE "check",
                              reloads')}
           /\ sent' = IF declines
                      THEN Append(sent,
                                  ApiCall("cancel", "decline", reloads'))
                      ELSE sent
    /\ UNCHANGED clicks
    /\ UNCHANGED beyondComponent

\* handleButtonClick: the debounce timer is armed, or armed anew
HandleButtonClick ==
    /\ reloads > 0
    /\ clicks < MaxClicks
    /\ clicks' = clicks + 1
    /\ debounceTimer' = TRUE
    /\ UNCHANGED <<isLoading, isActive, currentSessionId, retryQueue,
                   apiCalls, reloads, sent, localStorage>>
    /\ UNCHANGED beyondComponent

\* variant of ClickIgnored: a click during an operation is acted upon
ClickNeverIgnored ==
    FALSE

\* 'Button click ignored - operation in progress'
ClickIgnored ==
    isLoading

\* the debounce timer fires: stopSession or startSession up to its request,
\* unless an operation is in progress
DebounceFires ==
    /\ debounceTimer
    /\ debounceTimer' = FALSE
    /\ IF ClickIgnored
       THEN UNCHANGED <<isLoading, retryQueue, apiCalls, sent>>
       ELSE IF isActive /\ ~currentSessionId
       THEN \* stopSession throws 'No active session found' before its request
            /\ retryQueue' = Append(retryQueue, "stop")
            /\ isLoading' = FALSE
            /\ UNCHANGED <<apiCalls, sent>>
       ELSE LET call == ApiCall(IF isActive THEN "stop" ELSE "start",
                                "click", clicks)
            IN  /\ isLoading' = TRUE
                /\ apiCalls' = apiCalls \cup {call}
                /\ sent' = Append(sent, call)
                /\ UNCHANGED retryQueue
    /\ UNCHANGED <<isActive, currentSessionId, clicks, reloads,
                   localStorage>>
    /\ UNCHANGED beyondComponent

\* a request of makeApiCall ends, and the caller goes on: startSession,
\* stopSession, checkForExistingSessions or handleSessionRecovery
ApiReturns(call, outcome) ==
    /\ call \in apiCalls
    /\ outcome = "inactive" => call.endpoint = "status"
    /\ apiCalls' = apiCalls \ {call}
    /\ LET saved == Item(StateData(ActiveState, clientNow, PageTab))
       IN
       CASE call.endpoint = "start" ->
              /\ isLoading' = FALSE
              /\ IF outcome = "success"
                 THEN /\ isActive' = TRUE
                      /\ currentSessionId' = TRUE
                      /\ localStorage' = saved
                      /\ UNCHANGED retryQueue
                 ELSE /\ retryQueue' = Append(retryQueue, "start")
                      /\ UNCHANGED <<isActive, currentSessionId,
                                     localStorage>>
         [] call.endpoint = "stop" ->
              /\ isLoading' = FALSE
              /\ IF outcome = "success"
                 THEN /\ isActive' = FALSE
                      /\ currentSessionId' = FALSE
                      /\ localStorage' = NoItem
                      /\ UNCHANGED retryQueue
                 ELSE /\ retryQueue' = Append(retryQueue, "stop")
                      /\ UNCHANGED <<isActive, currentSessionId,
                                     localStorage>>
         [] call.endpoint = "status" ->
              /\ IF outcome = "success"
                 THEN \* restoreActiveSession
                      /\ isActive' = TRUE
                      /\ currentSessionId' = TRUE
                      /\ localStorage' = saved
                 ELSE /\ localStorage' = IF call.cause.kind = "recovery"
                                         THEN NoItem ELSE localStorage
                      /\ UNCHANGED <<isActive, currentSessionId>>
              /\ UNCHANGED <<isLoading, retryQueue>>
         [] call.endpoint = "cancel" ->
              /\ localStorage' = NoItem
              /\ UNCHANGED <<isLoading, isActive, currentSessionId,
                             retryQueue>>
    /\ UNCHANGED <<debounceTimer, clicks, reloads, sent>>
    /\ UNCHANGED beyondComponent

ComponentNext ==
    \/ \E declines \in BOOLEAN : LoadPage(declines)
    \/ HandleButtonClick
    \/ DebounceFires
    \/ \E call \in apiCalls, outcome \in ApiOutcomes :
          ApiReturns(call, outcome)


\* ------------------------------------------------------------------------
\* The server's deletions of session rows: the clear-today routes and
\* cleanupOldSessions
\* ------------------------------------------------------------------------
MaxDeletes ==
    1

\* the daysOld a caller of cleanupOldSessions passes: none, or the default
DaysOldChoices ==
    {0, 365}

MaintenanceInit ==
    deletes = 0

\* the UTC calendar day of a time in milliseconds: date(start_time), and
\* new Date().toISOString().split('T')[0]
DayOf(ms) ==
    ms \div 86400000

\* the rows left by a DELETE of the rows in gone; the statement fails when
\* the table does not exist
DeleteRows(gone) ==
    IF tableExists
    THEN [id \in DOMAIN table \ gone |-> table[id]]
    ELSE table

\* WHERE user_id = ? AND date(start_time) = ?
TimeTrackingClearToday(userId, today) ==
    {id \in DOMAIN table : /\ table[id].user_id = userId
                           /\ DayOf(table[id].start_time) = today}

\* POST /api/time-tracking/clear-today: the rows of the user started today
\* are deleted, whatever their status; the ActiveSessionIndex is not touched
ClearTodayTimeTracking(userId, d) ==
    /\ Delivered
    /\ deletes < MaxDeletes
    /\ deletes' = deletes + 1
    /\ Now(d)
    /\ table' = DeleteRows(TimeTrackingClearToday(userId, DayOf(clock')))
    /\ UNCHANGED <<tableExists, activeSessionsCache, initVars, reqs, nextId,
                   calls, bootQuiet>>
    /\ UNCHANGED <<limiterVars, routeVars, reportVars, clientVars, syncVars,
                   componentVars, tabVars>>

\* WHERE start_time >= startOfDay AND start_time < endOfDay, the bounds
\* being the midnights around now (the server's time zone taken as UTC)
SessionClearToday(today) ==
    {id \in DOMAIN table :
        /\ table[id].start_time >= today * 86400000
        /\ table[id].start_time < (today + 1) * 86400000}

\* POST /api/session/clear-today, its second statement: the rows of every
\* user started today are deleted
ClearTodaySessions(d) ==
    /\ Delivered
    /\ deletes < MaxDeletes
    /\ deletes' = deletes + 1
    /\ Now(d)
    /\ table' = DeleteRows(SessionClearToday(DayOf(clock')))
    /\ UNCHANGED <<tableExists, activeSessionsCache, initVars, reqs, nextId,
                   calls, bootQuiet>>
    /\ UNCHANGED <<limiterVars, routeVars, reportVars, clientVars, syncVars,
                   componentVars, tabVars>>

\* WHERE start_time < date('now', '-N days')
\*   AND status IN ('completed', 'cancelled'): an ISO time is below a date
\* when its day is an earlier one
OldSessions(daysOld, today) ==
    {id \in DOMAIN table :
        /\ DayOf(table[id].start_time) < today - daysOld
        /\ table[id].status \in {"completed", "cancelled"}}

CleanupOldSessions(daysOld, d) ==
    /\ Delivered
    /\ deletes < MaxDeletes
    /\ deletes' = deletes + 1
    /\ Now(d)
    /\ table' = DeleteRows(OldSessions(daysOld, DayOf(clock')))
    /\ UNCHANGED <<tableExists, activeSessionsCache, initVars, reqs, nextId,
                   calls, bootQuiet>>
    /\ UNCHANGED <<limiterVars, routeVars, reportVars, clientVars, syncVars,
                   componentVars, tabVars>>

\* the session operations of one process, with the deletions
DeletionNext ==
    \/ \E r \in ReqIds : Respond(r)
    \/ InitializeLearningSessionsTable
    \/ RecoverIncompleteSessions
    \/ \E r \in ReqIds, userId \in UserIds, sessionData \in Metadata :
          StartCall(r, userId, sessionData)
    \/ \E r \in ReqIds : StartWake(r)
    \/ \E r \in ReqIds, d \in Elapses : StartCheck(r, d)
    \/ \E r \in ReqIds : StartInsert(r)
    \/ \E r \in ReqIds, sessionId \in SessionIds \cup {UnknownId},
          userId \in UserIds, d \in Elapses :
          StopCall(r, sessionId, userId, d)
    \/ \E r \in ReqIds : StopSelect(r)
    \/ \E r \in ReqIds : StopUpdate(r)
    \/ \E r \in ReqIds, sessionId \in SessionIds \cup {UnknownId},
          reason \in Reasons :
          CancelSession(r, sessionId, reason)
    \/ \E userId \in UserIds, d \in Elapses : ClearTodayTimeTracking(userId, d)
    \/ \E d \in Elapses : ClearTodaySessions(d)
    \/ \E daysOld \in DaysOldChoices, d \in Elapses :
          CleanupOldSessions(daysOld, d)

\* ------------------------------------------------------------------------
\* Browser side: the pages of two tabs over the shared localStorage
\* ------------------------------------------------------------------------
\* no tab has saved an active state over another tab's active session
NoTakeover ==
    [winner |-> "-", loser |-> "-"]

TabsInit ==
    /\ tabActive = [tab \in TabIds |-> FALSE]
    /\ takeover = NoTakeover

\* the tabs whose page shows the session as active, tab apart
OtherActiveTabs(tab) ==
    {other \in TabIds \ {tab} : tabActive[other]}

\* the page of a tab starts a session, or restores the one the server
\* reports (startSession, restoreActiveSession): isActive = true and
\* saveState of the active state
TabShowsActive(tab, d) ==
    /\ Handled
    /\ ~tabActive[tab]
    /\ ClientNow(d)
    /\ tabActive' = [tabActive EXCEPT ![tab] = TRUE]
    /\ localStorage' = Item(StateData(ActiveState, clientNow', tab))
    /\ storageEvent' = StorageEventOf(tab, localStorage')
    /\ takeover' = IF OtherActiveTabs(tab) = {}
                   THEN NoTakeover
                   ELSE [winner |-> tab,
                         loser |-> CHOOSE other \in OtherActiveTabs(tab) :
                                      TRUE]
    /\ clientOut' = [op |-> "saveState", tab |-> tab, at |-> clientNow',
                     ret |-> NoItem]
    /\ lastWrite' = [op |-> "saveState", tab |-> tab, at |-> clientNow',
                     ret |-> Item(ActiveState), replaced |-> localStorage]
    /\ UNCHANGED tabEvents
    /\ UNCHANGED <<serviceVars, limiterVars, routeVars, reportVars, syncVars,
                   componentVars, maintenanceVars>>

\* TimeTrackerComponent.setActiveState(false) in a tab: isActive = false
\* and clearState, whose removeItem is told to the other tabs
SetInactiveState(tab) ==
    /\ tabActive' = [tabActive EXCEPT ![tab] = FALSE]
    /\ localStorage' = NoItem
    /\ clientOut' = [op |-> "clearState", tab |-> tab, at |-> clientNow,
                     ret |-> NoItem]
    /\ lastWrite' = [op |-> "clearState", tab |-> tab, at |-> clientNow,
                     ret |-> NoItem, replaced |-> localStorage]

\* the page of a tab stops its session (stopSession, on success):
\* isActive = false and clearState
TabStops(tab) ==
    /\ Handled
    /\ tabActive[tab]
    /\ SetInactiveState(tab)
    /\ storageEvent' = StorageEventOf(tab, NoItem)
    /\ takeover' = NoTakeover
    /\ UNCHANGED <<clientNow, clientTicks, tabEvents>>
    /\ UNCHANGED <<serviceVars, limiterVars, routeVars, reportVars, syncVars,
                   componentVars, maintenanceVars>>

\* a tab takes the storage event sent to it: handleStorageChange,
\* handleTabConflicts and, on sessionConflict, the page's
\* handleSessionConflict, which calls setActiveState(false) if it is active
TabHandlesStorage(tab) ==
    /\ tab \in storageEvent.to
    /\ LET conflict == HandleTabConflicts(tab, storageEvent.newValue)
       IN  /\ tabEvents' =
                [tabEvents EXCEPT ![tab] =
                   [seen |-> TRUE, writer |-> storageEvent.writer,
                    newValue |-> storageEvent.newValue,
                    conflict |-> conflict]]
           /\ IF conflict.emitted /\ tabActive[tab]
              THEN /\ SetInactiveState(tab)
                   /\ storageEvent' = StorageEventOf(tab, NoItem)
              ELSE /\ storageEvent' =
                        IF storageEvent.to = {tab}
                        THEN NoStorageEvent
                        ELSE [storageEvent EXCEPT !.to = @ \ {tab}]
                   /\ UNCHANGED <<tabActive, localStorage, clientOut,
                                  lastWrite>>
    /\ UNCHANGED <<clientNow, clientTicks, takeover>>
    /\ UNCHANGED <<serviceVars, limiterVars, routeVars, reportVars, syncVars,
                   componentVars, maintenanceVars>>

TabsNext ==
    \/ \E tab \in TabIds, d \in ClientElapses : TabShowsActive(tab, d)
    \/ \E tab \in TabIds : TabStops(tab)
    \/ \E tab \in TabIds : TabHandlesStorage(tab)

\* ------------------------------------------------------------------------
\* Initialization that fails: initializeAsync over a database whose
\* statements can fail
\* ------------------------------------------------------------------------
\* CREATE TABLE or one of the CREATE INDEX statements fails: the promise of
\* initializeLearningSessionsTable rejects, initializeAsync throws at its
\* first await, and this.initialized = true is never reached
InitializeLearningSessionsTableFails(created) ==
    /\ Delivered
    /\ initPc = "createTable"
    /\ tableExists' = (tableExists \/ created)
    /\ initPc' = "failed"
    /\ UNCHANGED beyondService
    /\ UNCHANGED <<calls, table, activeSessionsCache, initialized, reqs, nextId,
                   timeVars, bootQuiet>>

\* the recovery query fails: its callback logs the error and resolves, and
\* initialized is set with nothing recovered
RecoverIncompleteSessionsFails ==
    /\ Delivered
    /\ initPc = "recover"
    /\ initialized' = TRUE
    /\ initPc' = "done"
    /\ UNCHANGED beyondService
    /\ UNCHANGED <<calls, dbVars, activeSessionsCache, reqs, nextId, timeVars,
                   bootQuiet>>

\* the steps of the process itself: initialization, the callbacks of the
\* statements queued and the delivery of the responses
FailureSteps ==
    \/ \E r \in ReqIds : Respond(r)
    \/ InitializeLearningSessionsTable
    \/ \E created \in BOOLEAN : InitializeLearningSessionsTableFails(created)
    \/ RecoverIncompleteSessions
    \/ RecoverIncompleteSessionsFails
    \/ \E r \in ReqIds : StartWake(r)
    \/ \E r \in ReqIds, d \in Elapses : StartCheck(r, d)
    \/ \E r \in ReqIds : StartInsert(r)

\* starts, over an initialization that can fail
FailureNext ==
    \/ FailureSteps
    \/ \E r \in ReqIds, userId \in UserIds, sessionData \in Metadata :
          StartCall(r, userId, sessionData)

\* ------------------------------------------------------------------------
\* Session ids: generateSessionId and the stop route's validateSessionId
\* ------------------------------------------------------------------------
\* digits Math.random().toString(36) prints after the point, at most
MaxFractionLen ==
    10

\* Date.now() when the id is made (milliseconds, not negative)
SessionNows ==
    {0, 125000}

\* digits of base 36 tried: a figure and a letter
RadixChars ==
    {"7", "k"}

\* the digits after the point of Math.random().toString(36): none for 0,
\* one for 0.5 ("0.i"), as many as the number needs otherwise
Fractions ==
    UNION {[1..n -> RadixChars] : n \in 0..MaxFractionLen}

RECURSIVE DecimalString(_)
\* String(n) of a natural number
DecimalString(n) ==
    IF n < 10 THEN <<Digits[n + 1]>>
    ELSE Append(DecimalString(n \div 10), Digits[(n % 10) + 1])

\* x.toString(36) of a number in [0, 1) with the digits of fraction
RadixString(fraction) ==
    IF Len(fraction) = 0 THEN <<"0">> ELSE <<"0", ".">> \o fraction

\* s.substr(start, length)
Substr(s, start, length) ==
    SubSeq(s, start + 1,
           IF start + length < Len(s) THEN start + length ELSE Len(s))

\* 'session_' + Date.now() + '_' + Math.random().toString(36).substr(2, 9)
GenerateSessionId(now, fraction) ==
    <<"s", "e", "s", "s", "i", "o", "n", "_">> \o DecimalString(now)
        \o <<"_">> \o Substr(RadixString(fraction), 2, 9)

\* /^session_\d+_[a-z0-9]{9}$/.test(chars)
SessionIdPattern(chars) ==
    LET n == Len(chars) IN
    /\ n >= 8 + 1 + 1 + 9
    /\ SubSeq(chars, 1, 8) = <<"s", "e", "s", "s", "i", "o", "n", "_">>
    /\ \A i \in 9..(n - 10) : chars[i] \in Range(Digits)
    /\ chars[n - 9] = "_"
    /\ \A i \in (n - 8)..n :
          chars[i] \in Range(LowerCase) \cup Range(Digits)

\* ErrorHandler.validateSessionId
ValidateSessionId(sessionId) ==
    IF Falsy(sessionId) \/ sessionId.type # "string"
    THEN FALSE
    ELSE SessionIdPattern(sessionId.chars)

MsgSessionIdRequired ==
    <<"S", "e", "s", "s", "i", "o", "n", " ", "I", "D", " ", "i", "s", " ",
      "r", "e", "q", "u", "i", "r", "e", "d">>

MsgInvalidSessionId ==
    <<"I", "n", "v", "a", "l", "i", "d", " ", "s", "e", "s", "s", "i", "o",
      "n", " ", "I", "D", " ", "f", "o", "r", "m", "a", "t">>

\* a start resolved with the id generated at time now from a random number
\* printed with the digits of fraction; the page sends stop with that id
StopRequest(now, fraction) ==
    /\ routeIn.route = "none"
    /\ routeIn' = [route |-> "stop", userId |-> DefaultUser,
                   monthsBackNum |-> NoMonths, message |-> << >>,
                   sessionId |-> JsString(GenerateSessionId(now, fraction))]
    /\ UNCHANGED routeOut
    /\ UNCHANGED beyondRoutes

\* POST /api/learning-sessions/stop, up to the call of the service
StopRoute ==
    /\ routeIn.route = "stop"
    /\ routeOut = NoReply
    /\ LET sessionId == routeIn.sessionId
           userId == Defaulted(routeIn.userId, DefaultUser)
       IN
       routeOut' =
         IF Falsy(sessionId)
         THEN Replied(CreateError(MsgSessionIdRequired,
                                  ErrorCodeNamed("INVALID_INPUT"), 400))
         ELSE IF ~ValidateSessionId(sessionId)
         THEN Replied(CreateError(MsgInvalidSessionId,
                                  ErrorCodeNamed("INVALID_SESSION_ID"), 400))
         ELSE IF ~ValidateUserId(userId)
         THEN Replied(CreateError(MsgInvalidUserId,
                                  ErrorCodeNamed("INVALID_USER_ID"), 400))
         ELSE PassedOn(userId)
    /\ UNCHANGED routeIn
    /\ UNCHANGED beyondRoutes

SessionIdNext ==
    \/ \E now \in SessionNows, fraction \in Fractions :
          StopRequest(now, fraction)
    \/ StopRoute

\* ------------------------------------------------------------------------
\* The calendar over days whose logged time is near a bucket's limit
\* ------------------------------------------------------------------------
\* duration_seconds of the completed sessions tried: under half a minute,
\* and half a minute or less under 30, 60 and 120 minutes
ShortOfLimitSeconds ==
    {20, 30, 1769, 1770, 1800, 3570, 3600, 7170}

\* completed sessions of one user on 31 March of the second year
ShortOfLimitRows ==
    {[user_id |-> "alice", start_time |-> startTime, status |-> "completed",
      duration_seconds |-> seconds] :
        startTime \in {DayIndex(1, 3, 31) * 86400 + 28800,
                       DayIndex(1, 3, 31) * 86400 + 72000},
        seconds \in ShortOfLimitSeconds}

CalendarNext ==
    \/ \E row \in ShortOfLimitRows : AddReportRow(row)
    \/ \E monthsBack \in MonthsBackChoices, now \in ReportNows :
          GetCalendarData("alice", monthsBack, now)
\* ------------------------------------------------------------------------
\* Specification
\* ------------------------------------------------------------------------
Next ==
    \/ \E r \in ReqIds : Respond(r)
    \/ InitializeLearningSessionsTable
    \/ RecoverIncompleteSessions
    \/ Restart
    \/ \E r \in ReqIds, userId \in UserIds, sessionData \in Metadata :
          StartCall(r, userId, sessionData)
    \/ \E r \in ReqIds : StartWake(r)
    \/ \E r \in ReqIds, d \in Elapses : StartCheck(r, d)
    \/ \E r \in ReqIds : StartInsert(r)
    \/ \E r \in ReqIds, sessionId \in SessionIds \cup {UnknownId},
          userId \in UserIds, d \in Elapses :
          StopCall(r, sessionId, userId, d)
    \/ \E r \in ReqIds : StopSelect(r)
    \/ \E r \in ReqIds : StopUpdate(r)
    \/ \E r \in ReqIds, sessionId \in SessionIds \cup {UnknownId},
          reason \in Reasons :
          CancelSession(r, sessionId, reason)
    \/ \E r \in ReqIds, userId \in UserIds, d \in Elapses :
          GetActiveSession(r, userId, d)

Init ==
    /\ ServiceInit
    /\ LimiterInit
    /\ RouteInit
    /\ ReportInit
    /\ ClientInit
    /\ SyncInit
    /\ ComponentInit
    /\ MaintenanceInit
    /\ TabsInit

Spec ==
    Init /\ [][Next]_vars

\* the rate limiter alone, in front of an idle service
LimiterSpec ==
    Init /\ [][LimiterNext]_vars

\* the routes' validation of their input and the error responses
RouteSpec ==
    Init /\ [][RouteNext]_vars

\* the reports, over every table of up to MaxReportRows rows
ReportSpec ==
    Init /\ [][ReportNext]_vars

\* the SessionStateManager of the tabs of one browser
ClientSpec ==
    Init /\ [][ClientNext]_vars

\* calculateIntensity, for every minute count up to MaxMinutes
IntensitySpec ==
    Init /\ [][IntensityNext]_vars


\* one page's SessionStateManager: heartbeat, visibility, connectivity and
\* the synchronisation with the server
SyncSpec ==
    Init /\ [][SyncNext]_vars

\* the TimeTrackerComponent of one page, over its loads
ComponentSpec ==
    Init /\ [][ComponentNext]_vars

\* the session operations of one process and the deletions of rows by the
\* clear-today routes and cleanupOldSessions
DeletionSpec ==
    Init /\ [][DeletionNext]_vars

\* the pages of the tabs of one browser, told of each other's writes by
\* storage events
TabsSpec ==
    Init /\ [][TabsNext]_vars

\* starts over an initialization that can fail; the event loop runs every
\* callback that is due, the polling timer of waitForInitialization
\* included, but callers need not call
FailureSpec ==
    Init /\ [][FailureNext]_vars /\ WF_vars(FailureSteps)

\* the ids generateSessionId makes, sent back to the stop route
SessionIdSpec ==
    Init /\ [][SessionIdNext]_vars

\* getCalendarData over days whose logged time is near a bucket's limit
CalendarSpec ==
    Init /\ [][CalendarNext]_vars

TypeOK ==
    /\ DOMAIN table \subseteq SessionIds
    /\ DOMAIN activeSessionsCache \subseteq DOMAIN table
    /\ initialized \in BOOLEAN
    /\ nextId \in 1..(MaxSessions + 1)
    /\ clock \in Int
    /\ DOMAIN requestCounts \subseteq Identifiers
    /\ limiterNow >= 0

\* ------------------------------------------------------------------------
\* Properties
\* ------------------------------------------------------------------------
Done(r) ==
    reqs[r].pc = "done"

\* C1: for every user the table never holds more than one row with
\* status = active and end_time NULL, whatever the interleaving of
\* concurrent startLearningSession calls.
C1_AtMostOneActiveRowPerUser ==
    \A userId \in UserIds : Cardinality(ActiveRowsOf(userId)) <= 1

\* C2: a start made while the user has exactly one active row and no other
\* request is in flight is rejected as already active, its steps write
\* neither the table nor the cache, and exactly one active row of the user
\* exists afterwards.
C2_SecondStartRejected ==
    /\ [](\A r \in ReqIds :
            (Done(r) /\ reqs[r].op = "start" /\ reqs[r].hSolo
               /\ reqs[r].hHadOne)
            => /\ reqs[r].error = "ALREADY_ACTIVE"
               /\ reqs[r].response # Success
               /\ Cardinality(ActiveRowsOf(reqs[r].userId)) = 1)
    /\ [][\A r \in ReqIds :
            (reqs[r].op = "start" /\ reqs[r].hSolo /\ reqs[r].hHadOne
               /\ reqs'[r].op = "start" /\ reqs'[r].hSolo
               /\ reqs'[r] # reqs[r])
            => /\ table' = table
               /\ activeSessionsCache' = activeSessionsCache
               /\ nextId' = nextId]_vars

C2_Witness ==
    \E r \in ReqIds :
        /\ Done(r) /\ reqs[r].op = "start"
        /\ reqs[r].hSolo /\ reqs[r].hHadOne
        /\ reqs[r].error = "ALREADY_ACTIVE"
        /\ \E id \in ActiveRowsOf(reqs[r].userId) :
              id \in DOMAIN activeSessionsCache

\* the stop of a session by its owner, as the only request on that session,
\* at a wall-clock time not before the session's start
OwnerStop(r) ==
    /\ Done(r)
    /\ reqs[r].op = "stop"
    /\ reqs[r].hOnly
    /\ reqs[r].sessionId \in DOMAIN table
    /\ table[reqs[r].sessionId].user_id = reqs[r].userId
    /\ reqs[r].endTime >= table[reqs[r].sessionId].start_time

\* C3: a stop by the owner of a session started in this process, with no
\* other request on that session, succeeds with durationSeconds = the whole
\* seconds between startTime and the stop time (>= 0; 125 for 125 s),
\* persists endTime and that duration with status = completed, and removes
\* the id from the cache.
C3_StartThenStop ==
    \A r \in ReqIds :
        (OwnerStop(r) /\ reqs[r].hCached = "active")
        => LET row == table[reqs[r].sessionId]
               ms == reqs[r].endTime - row.start_time
           IN  /\ reqs[r].response = Success
               /\ reqs[r].durationSeconds >= 0
               /\ reqs[r].durationSeconds * 1000 <= ms
               /\ ms < (reqs[r].durationSeconds + 1) * 1000
               /\ ms = 125000 => reqs[r].durationSeconds = 125
               /\ row.status = "completed"
               /\ row.end_time = reqs[r].endTime
               /\ row.duration_seconds = reqs[r].durationSeconds
               /\ reqs[r].sessionId \notin DOMAIN activeSessionsCache

C3_Witness ==
    \E r \in ReqIds :
        /\ OwnerStop(r) /\ reqs[r].hCached = "active"
        /\ reqs[r].response = Success
        /\ reqs[r].durationSeconds = 125
        /\ table[reqs[r].sessionId].duration_seconds = 125

\* C4: of two stops of one session exactly one succeeds, and the endTime and
\* durationSeconds it persisted are never overwritten by the other: once a
\* row is completed no stop resolves on it and its end_time and
\* duration_seconds stay.
C4_OneStopWins ==
    [][\A id \in DOMAIN table :
          table[id].status = "completed"
          => /\ id \in DOMAIN table'
             /\ table'[id].end_time = table[id].end_time
             /\ table'[id].duration_seconds = table[id].duration_seconds
             /\ \A r \in ReqIds :
                  (reqs[r].op = "stop" /\ reqs[r].sessionId = id
                     /\ reqs[r].pc = "update")
                  => reqs'[r].response # Success]_vars

\* C5: cancelSession on an id whose row is not active fails with
\* SESSION_NOT_FOUND and changes neither the table nor the cache.
C5_CancelInactiveNotFound ==
    [][\A r \in ReqIds :
          (tableExists /\ reqs[r].op = "none" /\ reqs'[r].op = "cancel"
             /\ ~ActiveRow(reqs'[r].sessionId))
          => /\ reqs'[r].response.code = "SESSION_NOT_FOUND"
             /\ table' = table
             /\ activeSessionsCache' = activeSessionsCache]_vars

\* C6: while initialization is still running, a start, stop or cancel
\* request is held or answered SERVICE_UNAVAILABLE; it is never processed.
C6_NothingBeforeRecovery ==
    \A r \in ReqIds :
        (~initialized /\ reqs[r].op \in {"start", "stop", "cancel"})
        => \/ reqs[r].pc = "wait"
           \/ reqs[r].response.code = "SERVICE_UNAVAILABLE"

\* WHERE status = 'active' AND end_time IS NULL, over the whole table
ActiveRows ==
    {id \in DOMAIN table : /\ table[id].status = "active"
                           /\ table[id].end_time = NULL}

\* C7: once initialization has completed after a boot, and before any
\* mutating request, the cache holds exactly the ids of the rows with
\* status = active and end_time NULL, and getActiveSession for the owner of
\* such a row returns a session whose elapsedSeconds is counted up to now.
C7_RecoveredIndex ==
    (initialized /\ bootQuiet)
    => /\ DOMAIN activeSessionsCache = ActiveRows
       /\ \A r \in ReqIds :
            (Done(r) /\ reqs[r].op = "status"
               /\ ActiveRowsOf(reqs[r].userId) # {})
            => /\ reqs[r].response = Success
               /\ reqs[r].found
               /\ reqs[r].sessionId \in ActiveRowsOf(reqs[r].userId)
               /\ reqs[r].elapsedSeconds =
                    (clock - table[reqs[r].sessionId].start_time) \div 1000

C7_Witness ==
    /\ epoch > 0 /\ initialized /\ bootQuiet
    /\ ActiveRows # {}
    /\ \A id \in ActiveRows : activeSessionsCache[id].status = "recovered"
    /\ \E id \in DOMAIN table : table[id].status # "active"
    /\ \E r \in ReqIds :
          /\ Done(r) /\ reqs[r].op = "status" /\ reqs[r].found
          /\ reqs[r].elapsedSeconds > 0

\* C8: a session recovered at boot and still active can be stopped by its
\* owner, or cancelled: the stop succeeds with status = completed and the
\* duration counted from the durable start_time, also above 24 h; the
\* cancel succeeds with status = cancelled.
C8_RecoveredSessionStops ==
    \A r \in ReqIds :
        /\ (OwnerStop(r) /\ reqs[r].hCached = "recovered"
              /\ reqs[r].hRowActive)
           => LET row == table[reqs[r].sessionId] IN
              /\ reqs[r].response = Success
              /\ row.status = "completed"
              /\ row.end_time = reqs[r].endTime
              /\ row.duration_seconds =
                   (reqs[r].endTime - row.start_time) \div 1000
              /\ reqs[r].durationSeconds = row.duration_seconds
        /\ (Done(r) /\ reqs[r].op = "cancel" /\ reqs[r].hOnly
              /\ reqs[r].hCached = "recovered" /\ reqs[r].hRowActive)
           => /\ reqs[r].response = Success
              /\ table[reqs[r].sessionId].status = "cancelled"

C8_Witness ==
    \E r \in ReqIds :
        /\ OwnerStop(r) /\ reqs[r].hCached = "recovered"
        /\ reqs[r].hRowActive
        /\ reqs[r].response = Success
        /\ table[reqs[r].sessionId].duration_seconds > 86400

\* C9: the rejection of a start for a user with an active session reaches
\* the caller as SESSION_ALREADY_ACTIVE, and the rejection of a stop of a
\* missing or completed session as SESSION_NOT_FOUND.
C9_RejectionCodes ==
    \A r \in ReqIds :
        Done(r)
        => /\ reqs[r].error = "ALREADY_ACTIVE"
              => reqs[r].response.code = "SESSION_ALREADY_ACTIVE"
           /\ (reqs[r].op = "stop"
                 /\ reqs[r].error \in {"NO_ACTIVE_SESSION", "NOT_FOUND"})
              => reqs[r].response.code = "SESSION_NOT_FOUND"

\* C10: a stop by a user who is not the owner fails with a code other than
\* the one of a not-found session, and leaves the session active and cached.
C10_OwnershipErrorDistinct ==
    \A r \in ReqIds :
        (Done(r) /\ reqs[r].op = "stop" /\ reqs[r].error = "NOT_OWNER")
        => /\ reqs[r].response.code # ErrorResponse["NOT_FOUND"].code
           /\ reqs[r].response.code # ErrorResponse["NO_ACTIVE_SESSION"].code
           /\ reqs[r].hOnly
              => /\ ActiveRow(reqs[r].sessionId)
                 /\ reqs[r].sessionId \in DOMAIN activeSessionsCache

C12_DurationIffCompleted ==
    \A id \in DOMAIN table :
        LET row == table[id]
            ms == row.end_time - row.start_time
        IN  /\ (row.end_time # NULL /\ row.duration_seconds # NULL)
                 <=> row.status = "completed"
            /\ row.status = "completed"
                 => /\ row.duration_seconds >= 0
                    /\ row.duration_seconds * 1000 <= ms
                    /\ ms < (row.duration_seconds + 1) * 1000
            /\ row.status \in {"active", "cancelled"}
                 => /\ row.end_time = NULL
                    /\ row.duration_seconds = NULL
            /\ row.status \in {"active", "cancelled", "completed"}

C12_Witness ==
    /\ \E id \in DOMAIN table :
          /\ table[id].status = "completed"
          /\ table[id].duration_seconds > 0
    /\ \E id \in DOMAIN table :
          /\ table[id].status = "cancelled"
          /\ table[id].end_time = NULL

\* C13: a stop that finds the stored start_time later than the clock is
\* rejected with the invalid-session-state code, and leaves the row active
\* and the id in the cache.
C13_NegativeDurationCode ==
    \A r \in ReqIds :
        (Done(r) /\ reqs[r].op = "stop"
           /\ reqs[r].error = "NEGATIVE_DURATION")
        => /\ reqs[r].response.code
                \in {"INVALID_SESSION_STATE", "SESSION_INVALID_STATE"}
           /\ reqs[r].hOnly
              => /\ ActiveRow(reqs[r].sessionId)
                 /\ reqs[r].sessionId \in DOMAIN activeSessionsCache

\* C14: a request of an identifier is admitted exactly if fewer than 100
\* requests of that identifier were admitted in the 60 s before it; an
\* admitted request is passed on to the route, a refused one is answered
\* RATE_LIMIT_EXCEEDED with status 429 and is not passed on; requests of
\* other identifiers do not change an identifier's count.
C14_RateLimit ==
    [][\A identifier \in Identifiers :
          limiterCalls'[identifier] # limiterCalls[identifier]
          => LET recent ==
                   {i \in 1..Len(limiterLog[identifier]) :
                      limiterLog[identifier][i] + 60000 > limiterNow'}
             IN  /\ limiterOut'.identifier = identifier
                 /\ limiterOut'.allowed <=> Cardinality(recent) < 100
                 /\ limiterOut'.allowed
                      => /\ limiterOut'.nextCalled
                         /\ limiterOut'.response = NoResponse
                 /\ ~limiterOut'.allowed
                      => /\ ~limiterOut'.nextCalled
                         /\ limiterOut'.response.code = "RATE_LIMIT_EXCEEDED"
                         /\ limiterOut'.response.statusCode = 429
                 /\ \A other \in Identifiers \ {identifier} :
                      limiterLog'[other] = limiterLog[other]]_vars

\* a hundred requests of the Caller were admitted, its next one was refused,
\* and the one it made when the window had gone by was admitted again
C14_Witness ==
    /\ limiterOut.identifier = Caller
    /\ limiterOut.allowed
    /\ limiterOut.nextCalled
    /\ limiterNow = 60000
    /\ limiterCalls[Caller] = 102
    /\ Len(limiterLog[Caller]) = 101
    /\ limiterLog[Caller][100] = 0
    /\ Len(limiterLog["10.0.0.2"]) > 0

\* the characters a userId may be made of
WordChars ==
    {"a", "b", "c", "d", "e", "f", "g", "h", "i", "j", "k", "l", "m", "n",
     "o", "p", "q", "r", "s", "t", "u", "v", "w", "x", "y", "z",
     "A", "B", "C", "D", "E", "F", "G", "H", "I", "J", "K", "L", "M", "N",
     "O", "P", "Q", "R", "S", "T", "U", "V", "W", "X", "Y", "Z",
     "0", "1", "2", "3", "4", "5", "6", "7", "8", "9", "_"}

\* C15: the start route passes a request on to the session service exactly
\* if its userId is a string of 1 to 50 characters of [A-Za-z0-9_] (an
\* absent userId stands for 'default_user'); any other userId is answered
\* INVALID_USER_ID with status 400 and the service is not called, so the
\* table and the cache stay as they were.
C15_UserIdValidated ==
    (routeIn.route = "start" /\ routeOut # NoReply)
    => LET given == routeIn.userId
           wellFormed ==
               /\ given.type = "string"
               /\ Len(given.chars) \in 1..50
               /\ \A i \in 1..Len(given.chars) : given.chars[i] \in WordChars
       IN  /\ given.type # "undefined"
                => (routeOut.passedOn <=> wellFormed)
           /\ given.type = "undefined"
                => /\ routeOut.passedOn
                   /\ routeOut.userId = DefaultUser
           /\ routeOut.passedOn
                => /\ routeOut.sent = 0
                   /\ given.type # "undefined" => routeOut.userId = given
           /\ ~routeOut.passedOn
                => /\ routeOut.sent = 1
                   /\ routeOut.body.code = "INVALID_USER_ID"
                   /\ routeOut.body.statusCode = 400
                   /\ table = EmptyMap
                   /\ activeSessionsCache = EmptyMap
                   /\ \A r \in ReqIds : reqs[r] = Idle

\* a userId of 51 word characters was refused
C15_Witness ==
    /\ routeIn.route = "start"
    /\ routeIn.userId.type = "string"
    /\ Len(routeIn.userId.chars) = 51
    /\ \A i \in 1..51 : routeIn.userId.chars[i] = "Z"
    /\ routeOut.sent = 1
    /\ routeOut.body.code = "INVALID_USER_ID"
    /\ ~routeOut.passedOn

\* C16: every error response carries a code of the error-code table, a
\* message and a timestamp, whether the error was a TimeTrackingError or
\* any other exception, and it is the one response of its request.
C16_ErrorResponseShape ==
    (routeOut # NoReply /\ ~routeOut.passedOn)
    => /\ routeOut.sent = 1
       /\ JsonKeys(routeOut.body) = {"code", "message", "timestamp"}
       /\ routeOut.body.code \in ErrorCodes
       /\ routeIn.route = "catch"
            => (routeOut.body.code = "INTERNAL_SERVER_ERROR"
                  <=> \A k \in Keywords \ {<< >>} :
                         ~Includes(ToLowerCase(routeIn.message), k))

\* C17: calculateIntensity(m) of a minute count m >= 0 is 0 for m = 0, 1
\* for 0 < m < 30, 2 for 30 <= m < 60, 3 for 60 <= m < 120, and 4 for
\* m >= 120.
C17_IntensityBuckets ==
    reportOut.op = "intensity"
    => LET m == reportOut.minutes
           level == reportOut.data
       IN  /\ m >= 0
           /\ m = 0 => level = 0
           /\ (0 < m /\ m < 30) => level = 1
           /\ (30 <= m /\ m < 60) => level = 2
           /\ (60 <= m /\ m < 120) => level = 3
           /\ m >= 120 => level = 4
           /\ m = 29 => level = 1
           /\ m = 30 => level = 2
           /\ m = 59 => level = 2
           /\ m = 60 => level = 3
           /\ m = 119 => level = 3
           /\ m = 120 => level = 4

C17_Witness ==
    /\ reportOut.op = "intensity"
    /\ reportOut.minutes = 30
    /\ reportOut.data = 2

\* the number of rows of the table among those of a set
RowCount(rows) ==
    BagCardinality([row \in rows |-> reportRows[row]])

\* the sum of duration_seconds over the completed rows of the table among
\* those of a set
CompletedSeconds(rows) ==
    LET timed == {row \in rows : /\ row.status = "completed"
                                 /\ row.duration_seconds > 0}
    IN  BagCardinality([row \in timed |->
                          reportRows[row] * row.duration_seconds])

\* C18: getCalendarData(userId, monthsBack) has an entry for exactly the
\* dates of start_time, within the window, of the user's sessions that are
\* not cancelled, with sessions = their number, completedSessions = the
\* number of them completed and totalSeconds = the sum of their
\* duration_seconds; completed sessions of 600 s and 1200 s alone on a date
\* give sessions 2, totalSeconds 1800, totalMinutes 30, intensity 2.
C18_CalendarAggregates ==
    reportOut.op = "calendar"
    => LET counted ==
               {row \in BagToSet(reportRows) :
                  /\ row.user_id = reportOut.userId
                  /\ row.status \in {"active", "completed"}
                  /\ Date(row.start_time)
                        >= MonthsBack(reportOut.now, reportOut.monthsBack)}
           data == reportOut.data
       IN  /\ DOMAIN data = {row.start_time \div 86400 : row \in counted}
           /\ \A date \in DOMAIN data :
                LET ofDate == {row \in counted :
                                 row.start_time \div 86400 = date}
                IN  /\ data[date].sessions = RowCount(ofDate)
                    /\ data[date].sessions >= 1
                    /\ data[date].completedSessions =
                         RowCount({row \in ofDate :
                                     row.status = "completed"})
                    /\ data[date].totalSeconds = CompletedSeconds(ofDate)
                    /\ (/\ RowCount(ofDate) = 2
                        /\ {row.duration_seconds : row \in ofDate}
                              = {600, 1200})
                       => /\ data[date].sessions = 2
                          /\ data[date].totalSeconds = 1800
                          /\ data[date].totalMinutes = 30
                          /\ data[date].intensity = 2

\* two completed sessions of 600 s and 1200 s and a cancelled one, all of
\* one user and one day, are reported as two sessions of 1800 s
C18_Witness ==
    /\ reportOut.op = "calendar"
    /\ reportOut.userId = "alice"
    /\ BagCardinality(reportRows) = 3
    /\ \A row \in BagToSet(reportRows) :
          /\ row.user_id = "alice"
          /\ Date(row.start_time) = DayIndex(1, 3, 31)
    /\ {row.status : row \in BagToSet(reportRows)}
          = {"completed", "cancelled"}
    /\ DOMAIN reportOut.data = {DayIndex(1, 3, 31)}
    /\ reportOut.data[DayIndex(1, 3, 31)].sessions = 2
    /\ reportOut.data[DayIndex(1, 3, 31)].totalSeconds = 1800
    /\ reportOut.data[DayIndex(1, 3, 31)].totalMinutes = 30
    /\ reportOut.data[DayIndex(1, 3, 31)].intensity = 2

\* C19: calculateLearningTime(userId, dateRange) returns totalSeconds = the
\* sum of duration_seconds over the user's completed sessions in the range,
\* and totalSessions, completedSessions and activeSessions = the numbers of
\* the user's sessions in the range that are not cancelled, that are
\* completed and that are active; with no session in the range totalSeconds
\* and the average are 0.
C19_LearningTimeTotals ==
    reportOut.op = "calculate"
    => LET inRange ==
               {row \in BagToSet(reportRows) :
                  /\ row.user_id = reportOut.userId
                  /\ DateFilter(reportOut.dateRange, row.start_time,
                                reportOut.now)}
           data == reportOut.data
       IN  /\ data.totalSeconds = CompletedSeconds(inRange)
           /\ data.totalSessions =
                RowCount({row \in inRange : row.status # "cancelled"})
           /\ data.completedSessions =
                RowCount({row \in inRange : row.status = "completed"})
           /\ data.activeSessions =
                RowCount({row \in inRange : row.status = "active"})
           /\ data.totalSessions =
                data.completedSessions + data.activeSessions
           /\ {row \in inRange : row.status # "cancelled"} = {}
                => /\ data.totalSeconds = 0
                   /\ data.averageSessionMinutes = 0
           /\ data.totalSeconds # NULL
           /\ data.averageSessionMinutes # NULL

\* a completed, an active and a cancelled session of the week
C19_Witness ==
    /\ reportOut.op = "calculate"
    /\ reportOut.dateRange = "week"
    /\ BagCardinality(reportRows) = 3
    /\ \A row \in BagToSet(reportRows) :
          /\ row.user_id = reportOut.userId
          /\ Date(row.start_time) >= Date(reportOut.now) - 7
    /\ {row.status : row \in BagToSet(reportRows)}
          = {"completed", "active", "cancelled"}
    /\ reportOut.data.totalSessions = 2
    /\ reportOut.data.completedSessions = 1
    /\ reportOut.data.activeSessions = 1
    /\ reportOut.data.totalSeconds \in {600, 1200}

\* C20: a loadState less than 24 h after a saveState(s), with no saveState
\* or clearState in between, returns s with lastUpdated = the time of the
\* save, tabId = the saving tab's id and version = 1 and with nothing of an
\* earlier saved state; a loadState after a clearState returns null.
C20_SaveLoadClear ==
    clientOut.op = "loadState"
    => /\ (lastWrite.op = "saveState"
             /\ clientOut.at - lastWrite.at < 86400000)
          => LET s == lastWrite.ret.value
                 loaded == clientOut.ret.value
             IN  /\ clientOut.ret.present
                 /\ DOMAIN loaded =
                      DOMAIN s \cup {"lastUpdated", "tabId", "version"}
                 /\ loaded.lastUpdated = lastWrite.at
                 /\ loaded.tabId = lastWrite.tab
                 /\ loaded.version = 1
                 /\ \A k \in DOMAIN s \ {"lastUpdated", "tabId", "version"} :
                      loaded[k] = s[k]
       /\ lastWrite.op = "clearState" => ~clientOut.ret.present

\* the other tab loads, ten minutes later, the second of two states saved
C20_Witness ==
    /\ clientOut.op = "loadState"
    /\ clientOut.tab = "tab_2"
    /\ lastWrite.op = "saveState"
    /\ lastWrite.tab = "tab_1"
    /\ lastWrite.at = 600000
    /\ lastWrite.replaced.present
    /\ "sessionId" \in DOMAIN lastWrite.replaced.value
    /\ clientOut.at = 1200000
    /\ clientOut.ret.present
    /\ clientOut.ret.value =
         [isActive |-> FALSE, status |-> "stopped", version |-> 1,
          lastUpdated |-> 600000, tabId |-> "tab_1"]


\* C21: a loadState that finds a well-formed stored state returns null and
\* removes it if its lastUpdated is more than 24 h before the time of the
\* call, and returns it, leaving it stored, if it is at most 24 h old.
C21_LoadStateExpiry ==
    [][(/\ Handled
        /\ clientOut'.op = "loadState"
        /\ clientOut'.at = clientNow'
        /\ localStorage.present
        /\ ValidateStateData(localStorage.value))
       => LET age == clientNow' - localStorage.value.lastUpdated
          IN  /\ age > 86400000
                 => ~clientOut'.ret.present /\ ~localStorage'.present
              /\ age <= 86400000
                 => clientOut'.ret = localStorage
                    /\ localStorage' = localStorage]_vars

\* a state saved 30 h earlier has just been removed by a loadState, whose
\* storage event is on its way
C21_Witness ==
    /\ clientOut.op = "loadState"
    /\ ~clientOut.ret.present
    /\ ~localStorage.present
    /\ lastWrite.op = "saveState"
    /\ clientOut.at - lastWrite.at = 108000000
    /\ storageEvent.to # {}
    /\ storageEvent.writer = clientOut.tab
    /\ ~storageEvent.newValue.present
    /\ storageEvent.oldValue.value.lastUpdated = lastWrite.at

\* C22: a getRecoveryData that finds a well-formed stored state with a
\* sessionId returns an object whose canRecover is true exactly when the
\* state is less than 24 h old (false for a state saved 30 h before).
C22_CanRecoverUnder24h ==
    [][(/\ Handled
        /\ clientOut'.op = "getRecoveryData"
        /\ clientOut'.at = clientNow'
        /\ localStorage.present
        /\ ValidateStateData(localStorage.value)
        /\ "sessionId" \in DOMAIN localStorage.value)
       => LET age == clientNow' - localStorage.value.lastUpdated
          IN  /\ clientOut'.ret.present
              /\ clientOut'.ret.value.canRecover = (age < 86400000)]_vars

C26_SessionConflict ==
    \A tab \in TabIds :
        tabEvents[tab].seen
        => LET e == tabEvents[tab]
           IN  /\ e.writer # tab
               /\ IF e.newValue.present
                     /\ Truthy(e.newValue.value, "isActive")
                  THEN e.conflict = [emitted |-> TRUE,
                                     activeTab |-> e.writer,
                                     currentTab |-> tab]
                  ELSE ~e.conflict.emitted

\* tab_2 has emitted a conflict on tab_1's active state, and tab_1 has seen
\* tab_2 remove the item
C26_Witness ==
    /\ tabEvents["tab_2"].seen
    /\ tabEvents["tab_2"].conflict.emitted
    /\ tabEvents["tab_2"].conflict.activeTab = "tab_1"
    /\ tabEvents["tab_2"].conflict.currentTab = "tab_2"
    /\ tabEvents["tab_1"].seen
    /\ tabEvents["tab_1"].writer = "tab_2"
    /\ ~tabEvents["tab_1"].newValue.present
    /\ ~tabEvents["tab_1"].conflict.emitted

\* C24: when a sync ends, either with the server's status or without
\* asking for it, a sessionDiscrepancy has been emitted with tag
\* local_active_server_inactive if the cache holds an active state and the
\* server has no active session, with tag server_active_local_inactive if
\* the cache holds no active state (or nothing) and the server has one, and
\* none has been emitted if the two agree.
C24_SessionDiscrepancy ==
    (\/ syncOut.op = "resolveStateConflicts"
     \/ syncOut.op = "syncWithServer" /\ ~syncOut.fetched)
    => LET localActive == /\ syncOut.cache.present
                          /\ Truthy(syncOut.cache.value, "isActive")
           serverActive == syncOut.server.present
       IN  syncOut.discrepancies =
             IF localActive /\ ~serverActive
             THEN {"local_active_server_inactive"}
             ELSE IF ~localActive /\ serverActive
             THEN {"server_active_local_inactive"}
             ELSE {}

\* C25: while the page is hidden no heartbeat timer is armed, from the
\* construction of the manager on; at most one timer is armed at any time,
\* the one this.heartbeatTimer holds; and no heartbeat runs while the page
\* is hidden.
C25_HeartbeatWhileVisible ==
    /\ constructed /\ hidden => armedTimers = 0
    /\ armedTimers <= 1
    /\ heartbeatTimer <=> armedTimers = 1
    /\ syncOut.origin = "heartbeat" => ~hidden

\* C27: when the browser goes offline while a state is cached, the cached
\* state has pendingSync = true after the transition; when it comes back
\* online with a session cached, a status request is sent at once.
C27_OfflinePendingSync ==
    /\ [][(constructed /\ online /\ ~online' /\ localStorage.present)
          => /\ localStorage'.present
             /\ Truthy(localStorage'.value, "pendingSync")]_vars
    /\ [][(/\ constructed /\ ~online /\ online'
           /\ HasSession(Loaded(clientNow)))
          => syncCount' > syncCount]_vars

\* C28: no status request of the synchronisation stays in flight for more
\* than the bounded wait (apiTimeout), and no heartbeat is skipped because
\* of a request that has been in flight for longer than that.
C28_BoundedWait ==
    /\ \A s \in syncs : clientNow - s.sentAt <= ApiTimeout
    /\ ~(/\ syncOut.op = "performHeartbeat"
         /\ syncOut.skipped
         /\ \E s \in syncs : /\ s.origin = "heartbeat"
                             /\ clientNow - s.sentAt > ApiTimeout)

\* C30: a row whose status is completed or cancelled keeps that status in
\* every step: no stop turns a cancelled row into a completed one and no
\* cancel turns a completed row into a cancelled one.
C30_FinalStatusStays ==
    [][\A id \in DOMAIN table :
          table[id].status \in {"completed", "cancelled"}
          => /\ id \in DOMAIN table'
             /\ table'[id].status = table[id].status]_vars

\* C29: at most one start or stop request of the page is in flight at a
\* time, and the start, stop and cancel requests sent so far each come from
\* a user action of their own (a click acted upon, or a declined recovery):
\* none is sent again after it failed.
C29_NoSilentRetry ==
    /\ Cardinality({call \in apiCalls :
                      call.endpoint \in {"start", "stop"}}) <= 1
    /\ \A i, j \in 1..Len(sent) : i # j => sent[i].cause # sent[j].cause
    /\ \A i \in 1..Len(sent) :
          \/ sent[i].cause.kind = "click" /\ sent[i].cause.n \in 1..clicks
          \/ sent[i].cause.kind = "decline" /\ sent[i].cause.n \in 1..reloads
    /\ Len(sent) <= clicks + reloads

\* a start has failed and is in the retry queue, a second start is in
\* flight on a later click, and a further click is waiting
C29_Witness ==
    /\ retryQueue = <<"start">>
    /\ Len(sent) = 2
    /\ sent[1].endpoint = "start"
    /\ sent[2] \in apiCalls
    /\ sent[2].endpoint = "start"
    /\ isLoading
    /\ debounceTimer

\* C31: whenever initialization is over and no session operation is in
\* flight, the keys of the ActiveSessionIndex are the ids of the rows whose
\* status is active, deletions of rows included.
C31_IndexMatchesActiveRows ==
    (/\ initPc = "done"
     /\ \A r \in ReqIds : ~InFlight(r))
    => DOMAIN activeSessionsCache =
         {id \in DOMAIN table : table[id].status = "active"}

\* C32: once the page has cleared the cache (stop, cancel), only the next
\* start's saveState fills it again: no answer to, or failure of, a status
\* request sent before the clear writes a state back.
C32_ClearedCacheStaysEmpty ==
    [][(~localStorage.present /\ localStorage'.present)
       => \E sessionData \in SyncStates : PageSaves(sessionData)]_vars

\* C33: once a tab has saved an active state over a session another tab
\* shows as active and the storage events that followed are handled,
\* exactly one tab shows the session as active and the cache holds the
\* active state of the tab that took over.
C33_TakeoverKeepsWinnerState ==
    (takeover # NoTakeover /\ Handled)
    => /\ Cardinality({tab \in TabIds : tabActive[tab]}) = 1
       /\ localStorage.present
       /\ localStorage.value.tabId = takeover.winner
       /\ Truthy(localStorage.value, "isActive")

\* C34: the intervals from start_time to end_time of two completed sessions
\* of one user never overlap.
C34_CompletedIntervalsDisjoint ==
    \A a, b \in DOMAIN table :
        (/\ a # b
         /\ table[a].user_id = table[b].user_id
         /\ table[a].status = "completed"
         /\ table[b].status = "completed")
        => \/ table[a].end_time <= table[b].start_time
           \/ table[b].end_time <= table[a].start_time

\* C35: a startLearningSession call that waits for initialization is
\* eventually resolved or rejected.
C35_StartSettles ==
    \A r \in ReqIds :
        (reqs[r].op = "start" /\ reqs[r].pc = "wait") ~> (reqs[r].pc = "done")

\* C36: a stop request that carries an id made by generateSessionId passes
\* the route's validation of the session id and is handed to the service.
C36_GeneratedIdAccepted ==
    (routeIn.route = "stop" /\ routeOut # NoReply) => routeOut.passedOn

\* C37: when the last step of the synchronisation is the handling of a
\* successful answer (resolveStateConflicts), the cached state does not
\* have pendingSync = true.
C37_SyncedNotPending ==
    (syncOut.op = "resolveStateConflicts" /\ localStorage.present)
    => ~Truthy(localStorage.value, "pendingSync")

\* C38: the intensity getCalendarData gives a day is the bucket of the
\* day's totalSeconds: 0 for none, 1 under 1800 s, 2 under 3600 s, 3 under
\* 7200 s, 4 from there on.
C38_IntensityOfExactTime ==
    reportOut.op = "calendar"
    => \A date \in DOMAIN reportOut.data :
          LET day == reportOut.data[date] IN
          day.intensity =
            IF day.totalSeconds = 0 THEN 0
            ELSE IF day.totalSeconds < 1800 THEN 1
            ELSE IF day.totalSeconds < 3600 THEN 2
            ELSE IF day.totalSeconds < 7200 THEN 3
            ELSE 4
=============================================================================
